---- MODULE Spec2Model ----
(***************************************************************************)
(* Model of the online query path of the RAG reliability engine:           *)
(* QueryPipeline.execute / execute_stream with the RQ gate, the fallback   *)
(* manager, the answer generator, the verifier bank, the verification      *)
(* decision maker and the confidence scorer.                               *)
(*                                                                         *)
(* Scores (rq, groundedness, contradiction rate, self-consistency) are     *)
(* integers in hundredths; confidences are integers in units of 1/10000,   *)
(* which is what round(x, 4) keeps.  An answer is a sequence of symbols:   *)
(* the characters "[", "]", the digits, and word symbols, some of which    *)
(* stand for a whole phrase of the refusal allow-list.                     *)
(***************************************************************************)
EXTENDS Integers, Sequences, FiniteSets, TLC

\* ------------------------------------------------------------------ bounds
MaxLLMRewrites == 4
MaxFragments == 2

\* ------------------------------------------------- Settings (settings.py)
rq_proceed_threshold == 55
rq_fallback_threshold == 25
strict_rq_proceed_threshold == 70
conf_alpha == 50
conf_beta == 35
conf_gamma == 15
groundedness_pass_threshold == 70
groundedness_warn_threshold == 50
contradiction_pass_threshold == 20
contradiction_warn_threshold == 40
strict_groundedness_pass_threshold == 85
strict_contradiction_pass_threshold == 10
rerank_top_n == 10
\* default of format_evidence_block(chunks, max_chunks=10)
max_chunks == 10
\* SELF_INCONSISTENCY limit of decide (self_consistency < 0.4)
self_inconsistency_limit == 40
\* remaining_ms > 1500 gate of the verification stage
sc_budget_floor_ms == 1500
\* result.rewrites[:3]
max_rewrites == 3
\* neutral defaults of the verifier bank
groundedness_neutral == 50
contradiction_neutral == 0
self_consistency_neutral == 50

Modes == {"normal", "strict"}
Apis == {"execute", "stream"}

\* ------------------------------------------------------------- utilities
Min(a, b) == IF a < b THEN a ELSE b
Max(a, b) == IF a > b THEN a ELSE b
Clamp(x, lo, hi) == Max(lo, Min(hi, x))
Range(s) == {s[i] : i \in 1..Len(s)}

RECURSIVE SortedSeq(_)
\* sorted(set_of_ints)
SortedSeq(S) ==
  IF S = {} THEN <<>>
  ELSE LET m == CHOOSE x \in S : \A y \in S : x <= y
       IN <<m>> \o SortedSeq(S \ {m})

RECURSIVE SeqsUpTo(_, _)
\* all sequences over S of length at most n
SeqsUpTo(S, n) ==
  IF n = 0 THEN {<<>>}
  ELSE LET shorter == SeqsUpTo(S, n - 1)
       IN shorter \cup {Append(s, x) : s \in {t \in shorter : Len(t) = n - 1}, x \in S}

\* ------------------------------------------------ answer text and markers
Digits == {"0", "1", "2"}
DigitVal(ch) == CASE ch = "0" -> 0 [] ch = "1" -> 1 [] ch = "2" -> 2

\* str.lower() on the symbols of the model
Lower(t) ==
  CASE t = "UNABLE TO ANSWER" -> "unable to answer"
    [] t = "Does Not Address" -> "does not address"
    [] t = "X" -> "x"
    [] OTHER -> t

refusal_patterns ==
  { "do not contain information", "does not contain information",
    "do not contain the answer", "does not contain the answer",
    "do not contain the necessary", "do not contain the coordinates",
    "don't contain information", "doesn't contain information",
    "cannot answer the question", "cannot answer this question",
    "unable to answer", "i cannot provide an answer", "i am unable to",
    "no relevant information", "outside the scope of", "is not discussed in",
    "are not discussed in", "not contain any information", "do not address",
    "does not address", "not provided in the evidence" }

\* variant of _answer_admits_ignorance that compares without lower-casing
answer_admits_ignorance_caseSensitive(answer) ==
  \E i \in 1..Len(answer) : answer[i] \in refusal_patterns

\* QueryPipeline._answer_admits_ignorance
answer_admits_ignorance(answer) ==
  \E i \in 1..Len(answer) : Lower(answer[i]) \in refusal_patterns

RECURSIVE DigitsEnd(_, _)
\* first index at or after i that is not a digit (the greedy \d+)
DigitsEnd(s, i) ==
  IF i <= Len(s) /\ s[i] \in Digits THEN DigitsEnd(s, i + 1) ELSE i

RECURSIVE IntOf(_, _, _)
\* int(m) of the digit run s[i..j]
IntOf(s, i, j) ==
  IF j < i THEN 0 ELSE 10 * IntOf(s, i, j - 1) + DigitVal(s[j])

RECURSIVE findall(_, _)
\* re.findall(r"\[(\d+)\]", answer): leftmost non-overlapping matches from i
findall(s, i) ==
  IF i > Len(s) THEN <<>>
  ELSE IF s[i] = "["
       THEN LET j == DigitsEnd(s, i + 1)
            IN IF j > i + 1 /\ j <= Len(s) /\ s[j] = "]"
               THEN <<IntOf(s, i + 1, j - 1)>> \o findall(s, j + 1)
               ELSE findall(s, i + 1)
       ELSE findall(s, i + 1)

\* format_evidence_block: the numbered block [1] .., [2] .. of the prompt
format_evidence_block(chunks) ==
  [i \in 1..Min(Len(chunks), max_chunks) |-> [n |-> i, chunk |-> chunks[i]]]

\* the index test of the citation loop
CitedIndexOk(idx, evidence) == 1 <= idx /\ idx <= Len(evidence)

\* AnswerGenerator.generate after the LLM call: parse the cited chunks
ParseCitations(answer, evidence) ==
  LET cited_indices == Range(findall(answer, 1))
      valid == SortedSeq({idx \in cited_indices : CitedIndexOk(idx, evidence)})
  IN [answer |-> answer,
      cited_chunks |-> [k \in 1..Len(valid) |-> evidence[valid[k]]]]

rerank_noTruncation(scored, top_n) == scored

\* CrossEncoderReranker.rerank: scored[:top_n] of the rescored order
rerank(scored, top_n) ==
  IF scored = <<>> THEN <<>> ELSE SubSeq(scored, 1, Min(top_n, Len(scored)))

\* ---------------------------------------------------- scoring and verdict
\* ConfidenceScorer.score, in 1/10000
ConfidenceScore(rq, g, c) ==
  Clamp(conf_alpha * rq + conf_beta * g - conf_gamma * c, 0, 10000)

\* variant in which the neutral groundedness default reaches the pass threshold
GroundPass_neutralPasses(m) == groundedness_neutral

\* the pass thresholds decide selects for a mode
GroundPass(m) ==
  IF m = "strict" THEN strict_groundedness_pass_threshold
  ELSE groundedness_pass_threshold

\* variant in which strict mode passes up to the warn threshold
ContraPass_strictLooser(m) ==
  IF m = "strict" THEN contradiction_warn_threshold
  ELSE contradiction_pass_threshold

\* the contradiction pass threshold decide selects for a mode
ContraPass(m) ==
  IF m = "strict" THEN strict_contradiction_pass_threshold
  ELSE contradiction_pass_threshold

DecideVerdict_strictGreater(g, c, m) ==
  IF g > GroundPass(m) /\ c <= ContraPass(m) THEN "pass"
  ELSE IF g >= groundedness_warn_threshold /\ c <= contradiction_warn_threshold
       THEN "warn"
       ELSE "abstain"

\* the decision logic of decide
DecideVerdict(g, c, m) ==
  IF g >= GroundPass(m) /\ c <= ContraPass(m) THEN "pass"
  ELSE IF g >= groundedness_warn_threshold /\ c <= contradiction_warn_threshold
       THEN "warn"
       ELSE "abstain"

\* the reason codes of decide; sc is <<>> (None) or <<score>>
DecideReasons(g, c, sc) ==
  (IF g < groundedness_warn_threshold THEN <<"LOW_GROUNDEDNESS">> ELSE <<>>)
  \o (IF c > contradiction_warn_threshold THEN <<"CONTRADICTION_FOUND">> ELSE <<>>)
  \o (IF sc # <<>> /\ sc[1] < self_inconsistency_limit
      THEN <<"SELF_INCONSISTENCY">> ELSE <<>>)

decide_selfConsistencyVetoes(g, c, sc, m) ==
  [groundedness_score |-> g, contradiction_rate |-> c,
   self_consistency_score |-> sc,
   decision |-> IF sc # <<>> /\ sc[1] < self_inconsistency_limit THEN "abstain"
                ELSE DecideVerdict(g, c, m),
   reason_codes |-> DecideReasons(g, c, sc)]

\* VerificationDecisionMaker.decide
decide(g, c, sc, m) ==
  [groundedness_score |-> g, contradiction_rate |-> c,
   self_consistency_score |-> sc,
   decision |-> DecideVerdict(g, c, m),
   reason_codes |-> DecideReasons(g, c, sc)]

map_decision_strictWarnAbstains(verification_decision, m) ==
  IF verification_decision = "pass" THEN "answer"
  ELSE IF verification_decision = "warn" /\ m # "strict" THEN "clarify"
       ELSE "abstain"

\* QueryPipeline._map_decision
map_decision(verification_decision, m) ==
  IF verification_decision = "pass" THEN "answer"
  ELSE IF verification_decision = "warn" THEN "clarify"
       ELSE "abstain"

ProceedThreshold_ignoresMode(m) == rq_proceed_threshold

\* proceed_threshold of the decision gate
ProceedThreshold(m) ==
  IF m = "strict" THEN strict_rq_proceed_threshold ELSE rq_proceed_threshold

IgnoranceThreshold_fallback(m) == rq_fallback_threshold

\* the threshold the self-admitted-ignorance branch compares rq_score with
IgnoranceThreshold(m) == rq_proceed_threshold


\* ------------------------------------------------------ fixed response text
ABSTAIN_RETRIEVAL_TEXT ==
  <<"I cannot provide a reliable answer. The retrieved evidence is insufficient for this question.">>

ABSTAIN_VERIFICATION_TEXT ==
  <<"I cannot provide a reliable answer to this question. The evidence is insufficient or contradictory.">>

CAVEAT_TEXT ==
  <<"\n\nNote: This answer has moderate uncertainty. Some claims may not be fully supported by the available evidence.">>

\* ------------------------------------------------- inputs of the pipeline
\* A scored candidate list: the chunk ids in rank order together with what
\* RetrievalQualityScorer.score computes from the scores of that list.
ScoredList(chunks, rq, reasons) == [chunks |-> chunks, rq |-> rq, reasons |-> reasons]

EmptyList == ScoredList(<<>>, 0, <<"NO_RESULTS">>)

RqValues == {10, 25, 40, 55, 60, 70}

ReasonsAt(rq) == IF rq < 40 THEN <<"LOW_RELEVANCE">> ELSE <<>>

\* deduplicated candidates: none, two, or one more than rerank_top_n
RetrievedSets ==
  { <<>>, <<"c1", "c2">>,
    <<"c1", "c2", "c3", "c4", "c5", "c6", "c7", "c8", "c9", "c10", "c11">> }

Orders(cands) ==
  IF Len(cands) = 2 THEN {cands, <<cands[2], cands[1]>>} ELSE {cands}

RewriteLists ==
  { EmptyList,
    ScoredList(<<"c2">>, 20, <<"LOW_RELEVANCE">>),
    ScoredList(<<"c3", "c1">>, 60, <<>>) }

ExpandedLists ==
  {EmptyList} \cup
  {ScoredList(<<"c2", "c1", "c4">>, r, ReasonsAt(r)) : r \in {10, 25, 60, 70}}

\* what the LLM may answer: plain text, markers in and out of range,
\* repeated and malformed markers, refusal phrases in either case
Answers ==
  { <<>>,
    <<"x">>,
    <<"X", "[", "1", "]">>,
    <<"[", "2", "]", "[", "1", "]", "[", "2", "]">>,
    <<"[", "1", "1", "]", "[", "0", "]">>,
    <<"[", "]", "[", "1", "0", "]", "[", "2">>,
    <<"does not contain information">>,
    <<"x", "UNABLE TO ANSWER", "[", "1", "]">> }

RawGroundedness == {-10, 50, 70, 85}
RawContradiction == {0, 20, 41, 130}
ScValues == {10, 40}
RemainingMs == {-200, 1500, 1501}

\* RetrievalQualityScorer.score on a scored list
rq_scorer_score(cands) ==
  IF cands.chunks = <<>> THEN [rq |-> 0, reasons |-> <<"NO_RESULTS">>]
  ELSE [rq |-> cands.rq, reasons |-> cands.reasons]

\* ------------------------------------------------------- fallback manager
RetrievalResult(cands, q, reasons, d) ==
  [candidates |-> cands, quality_score |-> q, reason_codes |-> reasons, decision |-> d]

\* FallbackManager.query_rewrite: at most three of the rewrites the LLM gave
query_rewrite(llm_rewrites) ==
  SubSeq(llm_rewrites, 1, Min(max_rewrites, Len(llm_rewrites)))

\* the update test of the rewrite loop
BetterRq(new_rq, best_rq) == new_rq > best_rq

RECURSIVE BestOfRewrites(_, _)
\* the rewrite loop of fallback_retrieve; best is the running best triple
BestOfRewrites(best, rewrites) ==
  IF rewrites = <<>> THEN best
  ELSE LET new_reranked == Head(rewrites)
           new == rq_scorer_score(new_reranked)
       IN BestOfRewrites(
            IF BetterRq(new.rq, best.quality_score)
            THEN RetrievalResult(new_reranked, new.rq, new.reasons, best.decision)
            ELSE best,
            Tail(rewrites))

\* variant of fallback_retrieve that returns proceed whatever the best rq is
fallback_retrieve_alwaysProceed(expanded, llm_rewrites) ==
  LET first == rq_scorer_score(expanded)
      best == BestOfRewrites(
                RetrievalResult(expanded, first.rq, first.reasons, "proceed"),
                query_rewrite(llm_rewrites))
  IN best

\* FallbackManager.fallback_retrieve: expanded is the expanded retrieval,
\* llm_rewrites the reranked retrieval of each rewrite the LLM proposed
fallback_retrieve(expanded, llm_rewrites) ==
  LET first == rq_scorer_score(expanded)
  IN IF first.rq >= rq_proceed_threshold
     THEN RetrievalResult(expanded, first.rq, first.reasons, "proceed")
     ELSE LET best == BestOfRewrites(
                        RetrievalResult(expanded, first.rq, first.reasons, "pending"),
                        query_rewrite(llm_rewrites))
          IN IF best.quality_score >= rq_fallback_threshold
             THEN [best EXCEPT !.decision = "proceed"]
             ELSE [best EXCEPT !.decision = "abstain"]

\* ------------------------------------------------------------------ state
VARIABLES
  api,                \* "execute" or "stream"
  mode,               \* request.mode
  pc,                 \* position of the request in execute / execute_stream
  all_candidates,     \* deduplicated candidates of the retrieval stage
  reranked,           \* the scored list in effect (evidence of the generator)
  rq_score,           \* rq in effect
  rq_reasons,         \* reason codes of the RQ scorer (+ FALLBACK_USED)
  fallback_result,    \* <<>> or <<RetrievalResult>>
  evidence_block,     \* numbered evidence block of the generation prompt
  llm_rest,           \* what the streaming LLM has still to deliver
  full_answer,        \* fragments assembled so far by generate_stream
  gen_result,         \* <<>> or <<GenerationResult>>
  remaining_ms,       \* budget left when verification starts
  gpc,                \* position of GroundednessChecker.check
  cpc,                \* position of detect_answer_conflicts
  groundedness_score,
  contradiction_rate,
  sc_score,           \* <<>> (None) or <<score>>
  verification,       \* <<>> or <<VerificationResult>>
  response,           \* <<>> or <<QueryResponse>> handed to the caller
  events,             \* events yielded by execute_stream
  traces,             \* trace objects handed to create_task(save_trace)
  spans,              \* closed spans of the TraceContext, in order
  invoked,            \* collaborators invoked so far, in order
  raised              \* an exception left execute / execute_stream

\* SlidingWindowRateLimiter and the monotonic clock it reads
VARIABLES
  limiter_requests,   \* _requests: key -> admitted timestamps still kept
  clock,              \* time.monotonic(), in seconds
  admitted,           \* key -> timestamps of every call that returned True
  last_check          \* <<>> or <<the latest call of check and its result>>

limiterVars == <<limiter_requests, clock, admitted, last_check>>

\* CachedEmbedder: its EmbeddingCache and the embedder it delegates to
VARIABLES
  embedding_cache,    \* text hash -> <<>> or <<the stored embedding>>
  delegate_calls,     \* the batches the delegate was called with, in order
  last_embed          \* <<>> or <<the latest embed_query / embed_texts call>>

embedVars == <<embedding_cache, delegate_calls, last_embed>>

\* BM25Index, the thread of a rebuild and the thread of a search
VARIABLES
  bm25,               \* _bm25: <<>> (None) or <<the corpus the scorer was built on>>
  chunk_ids,          \* _chunk_ids
  tokenized_corpus,   \* _tokenized_corpus (the chunk ids of its rows)
  write_lock,         \* _write_lock is held
  build_pc,           \* position of the build thread
  build_chunks,       \* the argument of the rebuild in progress
  rebuilds,           \* rebuilds started so far
  indexes,            \* every corpus an index was built from, or is being built from
  search_pc,          \* position of the search thread
  search_scores,      \* scores of the running search, as the scorer's corpus
  search_out,         \* the result list under construction
  search_result       \* <<>> or <<what the latest search returned or raised>>

bm25Vars == <<bm25, chunk_ids, tokenized_corpus, write_lock, build_pc,
              build_chunks, rebuilds, indexes, search_pc, search_scores,
              search_out, search_result>>

\* QueryPipeline._deduplicate and FallbackManager.fallback_retrieve applied
\* to inputs of their own
VARIABLES
  dedup_in,           \* the candidates gathered over the sub-questions
  dedup_out,          \* <<>> or <<the list _deduplicate returned>>
  fallback_in         \* <<>> or <<what the retriever and the LLM give a fallback>>

fnVars == <<dedup_in, dedup_out, fallback_in>>

\* HybridRetrieverImpl.retrieve followed on its own
VARIABLES
  hybrid              \* position, backend results, fused list, lookup, output

\* reciprocal_rank_fusion applied to lists of its own
VARIABLES
  rrf_in,             \* the result lists, as given
  rrf_out             \* <<>> or <<fused ranking for every ordering of the lists>>

rrfVars == <<rrf_in, rrf_out>>

\* FAISSVectorStore: the id mapping, the index and the add calls in flight
VARIABLES
  faiss

\* IngestionPipeline.ingest_file: the chunk store, the BM25 index and its
\* write lock, the ingest calls in flight
VARIABLES
  ingest

libVars == <<hybrid, rrfVars, faiss, ingest>>

\* the state of the components outside the request path
compVars == <<limiterVars, embedVars, bm25Vars, fnVars, libVars>>

reqVars == <<api, mode>>
retrVars == <<all_candidates, reranked, rq_score, rq_reasons, fallback_result>>
genVars == <<evidence_block, llm_rest, full_answer, gen_result>>
verVars == <<remaining_ms, gpc, cpc, groundedness_score, contradiction_rate,
             sc_score, verification>>
outVars == <<response, events, traces>>
vars == <<api, mode, pc, all_candidates, reranked, rq_score, rq_reasons,
          fallback_result, evidence_block, llm_rest, full_answer, gen_result,
          remaining_ms, gpc, cpc, groundedness_score, contradiction_rate,
          sc_score, verification, response, events, traces, spans, invoked,
          raised, compVars>>

\* nothing retrieved, generated, verified or delivered yet
BlankRetrieval ==
  /\ all_candidates = <<>>
  /\ reranked = EmptyList
  /\ rq_score = 0
  /\ rq_reasons = <<>>
  /\ fallback_result = <<>>

BlankGeneration ==
  /\ evidence_block = <<>>
  /\ llm_rest = <<>>
  /\ full_answer = <<>>
  /\ gen_result = <<>>

BlankVerification ==
  /\ remaining_ms = 0
  /\ gpc = "idle"
  /\ cpc = "idle"
  /\ groundedness_score = 0
  /\ contradiction_rate = 0
  /\ sc_score = <<>>
  /\ verification = <<>>

BlankOutput ==
  /\ response = <<>>
  /\ events = <<>>
  /\ traces = <<>>
  /\ raised = FALSE

\* ------------------------------------------------------------ rate limiter
RateKeys == {"", "user1"}

\* SlidingWindowRateLimiter.__init__ (defaultdict(list)), the clock at zero
LimiterInit ==
  /\ limiter_requests = [k \in RateKeys |-> <<>>]
  /\ clock = 0
  /\ admitted = [k \in RateKeys |-> <<>>]
  /\ last_check = <<>>

\* -------------------------------------------------------- cached embedder
Texts == {"a", "b"}

\* EmbeddingCache._hash: the content address of a text
hash(text) == <<"sha256", text>>

\* EmbeddingCache.initialize (an empty table), a delegate not yet called
EmbedderInit ==
  /\ embedding_cache = [h \in {hash(t) : t \in Texts} |-> <<>>]
  /\ delegate_calls = <<>>
  /\ last_embed = <<>>

\* ------------------------------------------------------------- BM25 index
\* the index loaded at start-up was built from this corpus
LoadedCorpus == <<"k1", "k2">>

\* BM25Index.__init__ with _try_load; no rebuild and no search running
BM25Init ==
  /\ bm25 = <<LoadedCorpus>>
  /\ chunk_ids = LoadedCorpus
  /\ tokenized_corpus = LoadedCorpus
  /\ write_lock = FALSE
  /\ build_pc = "idle"
  /\ build_chunks = <<>>
  /\ rebuilds = 0
  /\ indexes = {LoadedCorpus}
  /\ search_pc = "idle"
  /\ search_scores = <<>>
  /\ search_out = <<>>
  /\ search_result = <<>>

\* _deduplicate has not been applied, no fallback is followed on its own
DedupIdle ==
  /\ dedup_in = <<>>
  /\ dedup_out = <<>>
  /\ fallback_in = <<>>

\* no retrieve call is being followed
HybridIdle ==
  [pc |-> "idle", vector_results |-> <<>>, bm25_results |-> <<>>, fused |-> <<>>,
   chunks_map |-> {}, store_queries |-> 0, candidates |-> <<>>]

\* reciprocal_rank_fusion has not been applied
RrfIdle ==
  /\ rrf_in = <<>>
  /\ rrf_out = <<>>

\* the callers of add_safe
AddTasks == {"t1", "t2"}

NoIds == [i \in {} |-> ""]

NoInts == [c \in {} |-> 0]

\* FAISSVectorStore.__init__ without a stored index
FaissEmpty ==
  [id_to_chunk_id |-> NoIds, chunk_id_to_int |-> NoInts, next_id |-> 0,
   ntotal |-> 0, write_lock |-> "",
   calls |-> [t \in AddTasks |-> [pc |-> "idle", chunk_ids |-> <<>>]],
   adds |-> 0, raised |-> 0]

\* FAISSVectorStore._try_load: the mapping and the index of an earlier run
FaissLoaded ==
  [FaissEmpty EXCEPT !.id_to_chunk_id = (0 :> "k1"),
                     !.chunk_id_to_int = ("k1" :> 0),
                     !.next_id = 1,
                     !.ntotal = 1]

\* concurrent ingest_file calls followed
MaxIngests == 2

IngestTasks == 1..MaxIngests

\* no ingest_file call has started; the index covers the stored chunks
IngestIdle(stored) ==
  [store |-> stored, bm25_chunk_ids |-> stored, write_lock |-> 0, waiters |-> <<>>,
   calls |-> [t \in IngestTasks |-> [pc |-> "idle", all_chunks |-> {}]]]

LibIdle ==
  /\ hybrid = HybridIdle
  /\ RrfIdle
  /\ faiss = FaissEmpty
  /\ ingest = IngestIdle({})

\* the components as constructed
ComponentsInit == LimiterInit /\ EmbedderInit /\ BM25Init /\ DedupIdle /\ LibIdle

\* a request arrives at execute or at execute_stream
Init ==
  /\ ComponentsInit
  /\ api \in Apis
  /\ mode \in Modes
  /\ pc = "query_understanding"
  /\ BlankRetrieval
  /\ BlankGeneration
  /\ BlankVerification
  /\ BlankOutput
  /\ spans = <<>>
  /\ invoked = <<>>


\* ------------------------------------------------------ response building
\* TraceContext(): the id the request's trace context was given
trace_id == "trace-1"

QueryResponse(answer, citations, confidence, decision, reasons, rq) ==
  [answer |-> answer, citations |-> citations, confidence |-> confidence,
   decision |-> decision, reasons |-> reasons, retrieval_quality |-> rq,
   trace_id |-> trace_id]

to_trace_alwaysAbstain(closed, rq, confidence, decision, reasons) ==
  [trace_id |-> trace_id, rq_score |-> rq, confidence |-> confidence,
   decision |-> "abstain", reason_codes |-> reasons, spans |-> closed]

\* TraceContext.to_trace: the spans closed so far go into the trace
to_trace(closed, rq, confidence, decision, reasons) ==
  [trace_id |-> trace_id, rq_score |-> rq, confidence |-> confidence,
   decision |-> decision, reason_codes |-> reasons, spans |-> closed]

\* asyncio.create_task(self._trace_store.save_trace(trace_obj)): the save is
\* scheduled, not awaited
create_task(trace_obj) ==
  traces' = Append(traces, [trace |-> trace_obj, state |-> "pending"])

\* variant of _build_abstain_response that drops the reason codes it is given
build_abstain_response_noReasons(rq, reasons) ==
  QueryResponse(ABSTAIN_RETRIEVAL_TEXT, <<>>, 0, "abstain", <<>>, rq)

\* QueryPipeline._build_abstain_response (the response it returns)
build_abstain_response(rq, reasons) ==
  QueryResponse(ABSTAIN_RETRIEVAL_TEXT, <<>>, 0, "abstain", reasons, rq)

\* QueryPipeline._build_clarify_response (the response it returns)
build_clarify_response(gen, rq, reasons) ==
  QueryResponse(gen.answer \o CAVEAT_TEXT, gen.cited_chunks, rq * 50,
                "clarify", reasons, rq)

\* STEP 10 of execute: the answer text for a decision
ExecuteAnswerText(decision, gen) ==
  IF decision = "abstain" THEN ABSTAIN_VERIFICATION_TEXT
  ELSE IF decision = "clarify" THEN gen.answer \o CAVEAT_TEXT
       ELSE gen.answer

\* the metadata of execute_stream: the answer text for a decision
StreamAnswerText(decision, gen) == gen.answer

\* the response of the verifier path of execute / execute_stream
build_verified_response(a, gen, confidence, decision, reasons, rq) ==
  QueryResponse(
    IF a = "stream" THEN StreamAnswerText(decision, gen)
    ELSE ExecuteAnswerText(decision, gen),
    gen.cited_chunks, confidence, decision, reasons, rq)

TokenEvent(chunk) == [event |-> "token", data |-> chunk, payload |-> <<>>]
MetadataEvent(resp) == [event |-> "metadata", data |-> <<>>, payload |-> <<resp>>]
DoneEvent == [event |-> "done", data |-> <<>>, payload |-> <<>>]

\* return response (execute) / yield metadata, yield done, return (stream)
Deliver(resp) ==
  /\ response' = <<resp>>
  /\ events' = IF api = "stream"
               THEN events \o <<MetadataEvent(resp), DoneEvent>>
               ELSE events
  /\ pc' = "done"

\* ------------------------------------------------------- stages 1 to 5
\* STEP 1
Understand ==
  /\ pc = "query_understanding"
  /\ pc' = "decomposition"
  /\ spans' = Append(spans, "query_understanding")
  /\ UNCHANGED <<compVars, reqVars, retrVars, genVars, verVars, outVars, invoked, raised>>

\* STEP 2
Decompose ==
  /\ pc = "decomposition"
  /\ pc' = "retrieval"
  /\ spans' = Append(spans, "decomposition")
  /\ UNCHANGED <<compVars, reqVars, retrVars, genVars, verVars, outVars, invoked, raised>>

\* STEP 3: the retrieval loop and _deduplicate
Retrieve ==
  /\ pc = "retrieval"
  /\ \E cands \in RetrievedSets : all_candidates' = cands
  /\ pc' = "reranking"
  /\ spans' = Append(spans, "retrieval")
  /\ UNCHANGED <<compVars, reqVars, reranked, rq_score, rq_reasons, fallback_result,
                 genVars, verVars, outVars, invoked, raised>>

\* STEP 3 when the embedder or the chunk store raises
RetrieveFail ==
  /\ pc = "retrieval"
  /\ pc' = "error"
  /\ raised' = TRUE
  /\ spans' = Append(spans, "retrieval")
  /\ UNCHANGED <<compVars, reqVars, retrVars, genVars, verVars, outVars, invoked>>

\* STEP 4: the cross-encoder orders the candidates, rerank keeps top_n
Rerank ==
  /\ pc = "reranking"
  /\ \E o \in Orders(all_candidates), r \in RqValues :
       reranked' = IF o = <<>> THEN EmptyList
                   ELSE ScoredList(rerank(o, rerank_top_n), r, ReasonsAt(r))
  /\ pc' = "rq_scoring"
  /\ spans' = Append(spans, "reranking")
  /\ UNCHANGED <<compVars, reqVars, all_candidates, rq_score, rq_reasons, fallback_result,
                 genVars, verVars, outVars, invoked, raised>>

\* STEP 5
RqScoring ==
  /\ pc = "rq_scoring"
  /\ rq_score' = rq_scorer_score(reranked).rq
  /\ rq_reasons' = rq_scorer_score(reranked).reasons
  /\ pc' = "gate"
  /\ spans' = Append(spans, "rq_scoring")
  /\ UNCHANGED <<compVars, reqVars, all_candidates, reranked, fallback_result,
                 genVars, verVars, outVars, invoked, raised>>

\* ------------------------------------------------------- STEP 6: the gate
\* rq_score < rq_fallback_threshold: abstain at once
GateAbstain ==
  /\ pc = "gate"
  /\ rq_score < rq_fallback_threshold
  /\ create_task(to_trace(spans, rq_score, 0, "abstain", rq_reasons))
  /\ Deliver(build_abstain_response(rq_score, rq_reasons))
  /\ UNCHANGED <<compVars, reqVars, retrVars, genVars, verVars, spans, invoked, raised>>

\* the test that sends a request to the fallback manager
NeedsFallback == rq_score >= rq_fallback_threshold /\ rq_score < ProceedThreshold(mode)

\* fallback ran and returned abstain: the trace is built inside the span
FallbackAbstain ==
  /\ pc = "gate"
  /\ NeedsFallback
  /\ \E expanded \in ExpandedLists, rw \in SeqsUpTo(RewriteLists, MaxLLMRewrites) :
       LET fr == fallback_retrieve(expanded, rw)
           reasons == rq_reasons \o <<"FALLBACK_FAILED">>
       IN /\ fr.decision = "abstain"
          /\ fallback_result' = <<fr>>
          /\ create_task(to_trace(spans, rq_score, 0, "abstain", reasons))
          /\ Deliver(build_abstain_response(rq_score, reasons))
  /\ invoked' = Append(invoked, "fallback")
  /\ spans' = Append(spans, "fallback")
  /\ UNCHANGED <<compVars, reqVars, all_candidates, reranked, rq_score, rq_reasons,
                 genVars, verVars, raised>>

\* fallback ran and returned proceed: its candidates and rq take effect
FallbackProceed ==
  /\ pc = "gate"
  /\ NeedsFallback
  /\ \E expanded \in ExpandedLists, rw \in SeqsUpTo(RewriteLists, MaxLLMRewrites) :
       LET fr == fallback_retrieve(expanded, rw)
       IN /\ fr.decision # "abstain"
          /\ fallback_result' = <<fr>>
          /\ reranked' = fr.candidates
          /\ rq_score' = fr.quality_score
  /\ rq_reasons' = Append(rq_reasons, "FALLBACK_USED")
  /\ invoked' = Append(invoked, "fallback")
  /\ spans' = Append(spans, "fallback")
  /\ pc' = "generation"
  /\ UNCHANGED <<compVars, reqVars, all_candidates, genVars, verVars, outVars, raised>>

\* control reaches STEP 7
GenReady ==
  \/ pc = "generation"
  \/ pc = "gate" /\ rq_score >= ProceedThreshold(mode)


\* ------------------------------------------------------ STEP 7: generation
\* execute: AnswerGenerator.generate returns the answer of the LLM
Generate ==
  /\ api = "execute"
  /\ GenReady
  /\ \E answer \in Answers :
       /\ full_answer' = answer
       /\ gen_result' = <<ParseCitations(answer, reranked.chunks)>>
  /\ evidence_block' = format_evidence_block(reranked.chunks)
  /\ invoked' = Append(invoked, "generate")
  /\ spans' = Append(spans, "generation")
  /\ pc' = "generated"
  /\ UNCHANGED <<compVars, reqVars, retrVars, llm_rest, verVars, outVars, raised>>

\* execute: the LLM call of generate raises GenerationError
GenerateFail ==
  /\ api = "execute"
  /\ GenReady
  /\ evidence_block' = format_evidence_block(reranked.chunks)
  /\ invoked' = Append(invoked, "generate")
  /\ spans' = Append(spans, "generation")
  /\ raised' = TRUE
  /\ pc' = "error"
  /\ UNCHANGED <<compVars, reqVars, retrVars, llm_rest, full_answer, gen_result, verVars,
                 outVars>>

\* execute_stream: generate_stream builds the prompt and opens the stream
StreamStart ==
  /\ api = "stream"
  /\ GenReady
  /\ llm_rest' \in Answers
  /\ full_answer' = <<>>
  /\ evidence_block' = format_evidence_block(reranked.chunks)
  /\ invoked' = Append(invoked, "generate")
  /\ pc' = "streaming"
  /\ UNCHANGED <<compVars, reqVars, retrVars, gen_result, verVars, outVars, spans, raised>>

TokensSent == Cardinality({i \in 1..Len(events) : events[i].event = "token"})

\* the LLM delivers a fragment; it is appended and yielded as a token event
StreamFragment ==
  /\ pc = "streaming"
  /\ llm_rest # <<>>
  /\ \E k \in {1, Len(llm_rest)} :
       /\ TokensSent + 1 = MaxFragments => k = Len(llm_rest)
       /\ full_answer' = full_answer \o SubSeq(llm_rest, 1, k)
       /\ events' = Append(events, TokenEvent(SubSeq(llm_rest, 1, k)))
       /\ llm_rest' = SubSeq(llm_rest, k + 1, Len(llm_rest))
  /\ UNCHANGED <<compVars, reqVars, pc, retrVars, evidence_block, gen_result, verVars,
                 response, traces, spans, invoked, raised>>

\* the LLM stream raises, before or after some fragments
StreamFail ==
  /\ pc = "streaming"
  /\ raised' = TRUE
  /\ spans' = Append(spans, "generation")
  /\ pc' = "error"
  /\ UNCHANGED <<compVars, reqVars, retrVars, genVars, verVars, outVars, invoked>>

\* the stream ends: citations are parsed from the assembled answer
StreamEnd ==
  /\ pc = "streaming"
  /\ llm_rest = <<>>
  /\ gen_result' = <<ParseCitations(full_answer, reranked.chunks)>>
  /\ spans' = Append(spans, "generation")
  /\ pc' = "generated"
  /\ UNCHANGED <<compVars, reqVars, retrVars, evidence_block, llm_rest, full_answer,
                 verVars, outVars, invoked, raised>>

\* ------------------------------------- STEP 7.5: self-admitted ignorance
IgnoranceClarify ==
  /\ pc = "generated"
  /\ answer_admits_ignorance(gen_result[1].answer)
  /\ rq_score >= IgnoranceThreshold(mode)
  /\ LET reasons == rq_reasons \o <<"LOW_GROUNDEDNESS">>
     IN /\ create_task(to_trace(spans, rq_score, rq_score * 50, "clarify", reasons))
        /\ Deliver(build_clarify_response(gen_result[1], rq_score, reasons))
  /\ UNCHANGED <<compVars, reqVars, retrVars, genVars, verVars, spans, invoked, raised>>

IgnoranceAbstain ==
  /\ pc = "generated"
  /\ answer_admits_ignorance(gen_result[1].answer)
  /\ ~(rq_score >= IgnoranceThreshold(mode))
  /\ LET reasons == rq_reasons \o <<"LOW_GROUNDEDNESS">>
     IN /\ create_task(to_trace(spans, rq_score, 0, "abstain", reasons))
        /\ Deliver(build_abstain_response(rq_score, reasons))
  /\ UNCHANGED <<compVars, reqVars, retrVars, genVars, verVars, spans, invoked, raised>>

\* ---------------------------------------------------- STEP 8: verification
\* remaining_ms is read, then gather starts both checks
VerifyStart ==
  /\ pc = "generated"
  /\ ~answer_admits_ignorance(gen_result[1].answer)
  /\ remaining_ms' \in RemainingMs
  /\ gpc' = "structured"
  /\ cpc' = "structured"
  /\ invoked' = invoked \o <<"groundedness", "contradiction">>
  /\ pc' = "gather"
  /\ UNCHANGED <<compVars, reqVars, retrVars, genVars, groundedness_score,
                 contradiction_rate, sc_score, verification, outVars, spans,
                 raised>>

\* GroundednessChecker.check: generate_structured answers; the score is clamped
GroundStructuredOk ==
  /\ pc = "gather" /\ gpc = "structured"
  /\ \E raw \in RawGroundedness : groundedness_score' = Clamp(raw, 0, 100)
  /\ gpc' = "done"
  /\ UNCHANGED <<compVars, reqVars, pc, retrVars, genVars, remaining_ms, cpc,
                 contradiction_rate, sc_score, verification, outVars, spans,
                 invoked, raised>>

\* generate_structured raises: the manual parse is tried
GroundStructuredFail ==
  /\ pc = "gather" /\ gpc = "structured"
  /\ gpc' = "manual"
  /\ UNCHANGED <<compVars, reqVars, pc, retrVars, genVars, remaining_ms, cpc,
                 groundedness_score, contradiction_rate, sc_score, verification,
                 outVars, spans, invoked, raised>>

GroundManualOk ==
  /\ pc = "gather" /\ gpc = "manual"
  /\ \E raw \in RawGroundedness : groundedness_score' = Clamp(raw, 0, 100)
  /\ gpc' = "done"
  /\ UNCHANGED <<compVars, reqVars, pc, retrVars, genVars, remaining_ms, cpc,
                 contradiction_rate, sc_score, verification, outVars, spans,
                 invoked, raised>>

\* both calls failed: the neutral score, no exception
GroundManualFail ==
  /\ pc = "gather" /\ gpc = "manual"
  /\ groundedness_score' = groundedness_neutral
  /\ gpc' = "failed"
  /\ UNCHANGED <<compVars, reqVars, pc, retrVars, genVars, remaining_ms, cpc,
                 contradiction_rate, sc_score, verification, outVars, spans,
                 invoked, raised>>

\* ContradictionDetector.detect_answer_conflicts, same shape
ContraStructuredOk ==
  /\ pc = "gather" /\ cpc = "structured"
  /\ \E raw \in RawContradiction : contradiction_rate' = Clamp(raw, 0, 100)
  /\ cpc' = "done"
  /\ UNCHANGED <<compVars, reqVars, pc, retrVars, genVars, remaining_ms, gpc,
                 groundedness_score, sc_score, verification, outVars, spans,
                 invoked, raised>>

ContraStructuredFail ==
  /\ pc = "gather" /\ cpc = "structured"
  /\ cpc' = "manual"
  /\ UNCHANGED <<compVars, reqVars, pc, retrVars, genVars, remaining_ms, gpc,
                 groundedness_score, contradiction_rate, sc_score, verification,
                 outVars, spans, invoked, raised>>

ContraManualOk ==
  /\ pc = "gather" /\ cpc = "manual"
  /\ \E raw \in RawContradiction : contradiction_rate' = Clamp(raw, 0, 100)
  /\ cpc' = "done"
  /\ UNCHANGED <<compVars, reqVars, pc, retrVars, genVars, remaining_ms, gpc,
                 groundedness_score, sc_score, verification, outVars, spans,
                 invoked, raised>>

ContraManualFail ==
  /\ pc = "gather" /\ cpc = "manual"
  /\ contradiction_rate' = contradiction_neutral
  /\ cpc' = "failed"
  /\ UNCHANGED <<compVars, reqVars, pc, retrVars, genVars, remaining_ms, gpc,
                 groundedness_score, sc_score, verification, outVars, spans,
                 invoked, raised>>

\* variant of the gather that resumes as soon as either check has returned
ChecksReturned_either == gpc \in {"done", "failed"} \/ cpc \in {"done", "failed"}

\* asyncio.gather resumes the pipeline when both checks have returned
ChecksReturned == gpc \in {"done", "failed"} /\ cpc \in {"done", "failed"}

\* remaining_ms > 1500: the self-consistency check runs (0.5 when it fails)
SelfConsistency ==
  /\ pc = "gather" /\ ChecksReturned
  /\ remaining_ms > sc_budget_floor_ms
  /\ \E v \in ScValues \cup {self_consistency_neutral} : sc_score' = <<v>>
  /\ invoked' = Append(invoked, "self_consistency")
  /\ pc' = "decide"
  /\ UNCHANGED <<compVars, reqVars, retrVars, genVars, remaining_ms, gpc, cpc,
                 groundedness_score, contradiction_rate, verification, outVars,
                 spans, raised>>

\* otherwise sc_score stays None
SkipSelfConsistency ==
  /\ pc = "gather" /\ ChecksReturned
  /\ ~(remaining_ms > sc_budget_floor_ms)
  /\ sc_score' = <<>>
  /\ pc' = "decide"
  /\ UNCHANGED <<compVars, reqVars, retrVars, genVars, remaining_ms, gpc, cpc,
                 groundedness_score, contradiction_rate, verification, outVars,
                 spans, invoked, raised>>

\* decide, STEP 9 confidence, STEP 10 response, trace, return
DecideAndRespond ==
  /\ pc = "decide"
  /\ LET v == decide(groundedness_score, contradiction_rate, sc_score, mode)
         confidence == ConfidenceScore(rq_score, groundedness_score, contradiction_rate)
         all_reasons == rq_reasons \o v.reason_codes
         decision == map_decision(v.decision, mode)
     IN /\ verification' = <<v>>
        /\ create_task(
                       to_trace(Append(spans, "verification"), rq_score,
                                confidence, decision, all_reasons))
        /\ Deliver(build_verified_response(api, gen_result[1], confidence,
                                           decision, all_reasons, rq_score))
  /\ invoked' = Append(invoked, "decide")
  /\ spans' = Append(spans, "verification")
  /\ UNCHANGED <<compVars, reqVars, retrVars, genVars, remaining_ms, gpc, cpc,
                 groundedness_score, contradiction_rate, sc_score, raised>>

\* --------------------------------------------- the scheduled trace save
\* the event loop runs a scheduled save_trace: the trace is stored
SaveTraceDone ==
  /\ \E i \in 1..Len(traces) :
       /\ traces[i].state = "pending"
       /\ traces' = [traces EXCEPT ![i].state = "done"]
  /\ UNCHANGED <<compVars, reqVars, pc, retrVars, genVars, verVars, response, events,
                 spans, invoked, raised>>

\* save_trace raises inside its task: the exception stays in the task
SaveTraceFail ==
  /\ \E i \in 1..Len(traces) :
       /\ traces[i].state = "pending"
       /\ traces' = [traces EXCEPT ![i].state = "failed"]
  /\ UNCHANGED <<compVars, reqVars, pc, retrVars, genVars, verVars, response, events,
                 spans, invoked, raised>>

Next ==
  \/ Understand
  \/ Decompose
  \/ Retrieve
  \/ RetrieveFail
  \/ Rerank
  \/ RqScoring
  \/ GateAbstain
  \/ FallbackAbstain
  \/ FallbackProceed
  \/ Generate
  \/ GenerateFail
  \/ StreamStart
  \/ StreamFragment
  \/ StreamFail
  \/ StreamEnd
  \/ IgnoranceClarify
  \/ IgnoranceAbstain
  \/ VerifyStart
  \/ GroundStructuredOk
  \/ GroundStructuredFail
  \/ GroundManualOk
  \/ GroundManualFail
  \/ ContraStructuredOk
  \/ ContraStructuredFail
  \/ ContraManualOk
  \/ ContraManualFail
  \/ SelfConsistency
  \/ SkipSelfConsistency
  \/ DecideAndRespond
  \/ SaveTraceDone
  \/ SaveTraceFail

Spec == Init /\ [][Next]_vars


\* ------------------------------------------- the decision step on its own
\* A request that has reached the verification decision, with every
\* groundedness and contradiction value in hundredths.
InitDecide ==
  /\ ComponentsInit
  /\ api \in Apis
  /\ mode \in Modes
  /\ pc = "decide"
  /\ all_candidates = <<"c1", "c2">>
  /\ reranked = ScoredList(<<"c2", "c1">>, 70, <<>>)
  /\ rq_score = 70
  /\ rq_reasons = <<>>
  /\ fallback_result = <<>>
  /\ evidence_block = format_evidence_block(<<"c2", "c1">>)
  /\ llm_rest = <<>>
  /\ full_answer = <<"x", "[", "1", "]">>
  /\ gen_result = <<ParseCitations(<<"x", "[", "1", "]">>, <<"c2", "c1">>)>>
  /\ remaining_ms \in {1500, 1501}
  /\ gpc = "done"
  /\ cpc = "done"
  /\ groundedness_score \in 0..100
  /\ contradiction_rate \in 0..100
  /\ sc_score \in IF remaining_ms > sc_budget_floor_ms THEN {<<39>>, <<40>>} ELSE {<<>>}
  /\ verification = <<>>
  /\ response = <<>>
  /\ events = IF api = "stream" THEN <<TokenEvent(<<"x", "[", "1", "]">>)>> ELSE <<>>
  /\ traces = <<>>
  /\ raised = FALSE
  /\ spans = <<"query_understanding", "decomposition", "retrieval", "reranking",
               "rq_scoring", "generation">>
  /\ invoked = <<"generate", "groundedness", "contradiction">>
               \o (IF remaining_ms > sc_budget_floor_ms
                   THEN <<"self_consistency">> ELSE <<>>)

SpecDecide == InitDecide /\ [][DecideAndRespond]_vars

\* ----------------------------------------- no request is in the pipeline
NoRequest ==
  /\ api = "execute"
  /\ mode = "normal"
  /\ pc = "idle"
  /\ BlankRetrieval
  /\ BlankGeneration
  /\ BlankVerification
  /\ BlankOutput
  /\ spans = <<>>
  /\ invoked = <<>>

pipelineVars == <<api, mode, pc, all_candidates, reranked, rq_score, rq_reasons,
                  fallback_result, evidence_block, llm_rest, full_answer,
                  gen_result, remaining_ms, gpc, cpc, groundedness_score,
                  contradiction_rate, sc_score, verification, response, events,
                  traces, spans, invoked, raised>>

\* ------------------------------------------- SlidingWindowRateLimiter.check
\* the limit and the window every call is made with, the end of the clock
MaxRequests == 2
WindowSeconds == 3
MaxClock == 5

Prune_keepsCutoff(ts, cutoff) == SelectSeq(ts, LAMBDA t : t >= cutoff)

\* [t for t in self._requests[key] if t > cutoff]
Prune(ts, cutoff) == SelectSeq(ts, LAMBDA t : t > cutoff)

\* check(key, max_requests, window_seconds)
Check(key, max_requests, window_seconds) ==
  LET now == clock
      cutoff == now - window_seconds
      kept == Prune(limiter_requests[key], cutoff)
  IN IF Len(kept) >= max_requests
     THEN /\ limiter_requests' = [limiter_requests EXCEPT ![key] = kept]
          /\ last_check' = <<[key |-> key, now |-> now, result |-> FALSE]>>
          /\ UNCHANGED admitted
     ELSE /\ limiter_requests' = [limiter_requests EXCEPT ![key] = Append(kept, now)]
          /\ last_check' = <<[key |-> key, now |-> now, result |-> TRUE]>>
          /\ admitted' = [admitted EXCEPT ![key] = Append(@, now)]

\* a caller with some key is checked
RateCheck ==
  /\ \E key \in RateKeys : Check(key, MaxRequests, WindowSeconds)
  /\ UNCHANGED <<clock, pipelineVars, embedVars, bm25Vars, fnVars, libVars>>

\* the monotonic clock advances
Tick ==
  /\ clock < MaxClock
  /\ clock' = clock + 1
  /\ UNCHANGED <<limiter_requests, admitted, last_check, pipelineVars, embedVars,
                 bm25Vars, fnVars, libVars>>

InitLimiter == NoRequest /\ ComponentsInit

NextLimiter ==
  \/ RateCheck
  \/ Tick

SpecLimiter == InitLimiter /\ [][NextLimiter]_vars

\* ----------------------------------------------------------- CachedEmbedder
\* the longest list given to embed_texts, the number of calls followed
MaxTexts == 2
MaxEmbedCalls == 3

\* what the delegate may return for a text: one of two embeddings
Generations == {1, 2}
Embedding(text, gen) == <<text, gen>>

\* EmbeddingCache.get: None or the stored embedding
cache_get(text) == embedding_cache[hash(text)]

\* hash_to_idx of get_batch: a dict built from (index, hash) pairs keeps,
\* for a hash that occurs more than once, the last index
hash_to_idx(texts, h) ==
  CHOOSE i \in 1..Len(texts) :
    /\ hash(texts[i]) = h
    /\ \A j \in 1..Len(texts) : hash(texts[j]) = h => j <= i

\* EmbeddingCache.get_batch: {index: embedding}, one row per stored hash
get_batch(texts) ==
  LET rows == {h \in {hash(texts[i]) : i \in 1..Len(texts)} : embedding_cache[h] # <<>>}
      found == {hash_to_idx(texts, h) : h \in rows}
  IN [i \in found |-> embedding_cache[hash(texts[i])][1]]

\* EmbeddingCache.put_batch applied to a cache: INSERT OR REPLACE row by row
RECURSIVE put_batch(_, _, _)
put_batch(cache, texts, embeddings) ==
  IF texts = <<>> THEN cache
  ELSE put_batch([cache EXCEPT ![hash(Head(texts))] = <<Head(embeddings)>>],
                 Tail(texts), Tail(embeddings))

EmbedCallsLeft == IF last_embed = <<>> THEN TRUE ELSE last_embed[1].n < MaxEmbedCalls

NextCallNo == IF last_embed = <<>> THEN 1 ELSE last_embed[1].n + 1

\* CachedEmbedder.embed_query
EmbedQuery ==
  /\ EmbedCallsLeft
  /\ \E query \in Texts, gen \in Generations :
       LET cached == cache_get(query)
       IN IF cached # <<>>
          THEN /\ last_embed' = <<[n |-> NextCallNo, op |-> "embed_query",
                                   texts |-> <<query>>, result |-> <<cached[1]>>]>>
               /\ UNCHANGED <<embedding_cache, delegate_calls>>
          ELSE LET embedding == Embedding(query, gen)
               IN /\ delegate_calls' = Append(delegate_calls, <<query>>)
                  /\ embedding_cache' = put_batch(embedding_cache, <<query>>, <<embedding>>)
                  /\ last_embed' = <<[n |-> NextCallNo, op |-> "embed_query",
                                      texts |-> <<query>>, result |-> <<embedding>>]>>
  /\ UNCHANGED <<pipelineVars, limiterVars, bm25Vars, fnVars, libVars>>

\* CachedEmbedder.embed_texts
EmbedTexts ==
  /\ EmbedCallsLeft
  /\ \E texts \in SeqsUpTo(Texts, MaxTexts), gen \in Generations :
       IF texts = <<>>
       THEN /\ last_embed' = <<[n |-> NextCallNo, op |-> "embed_texts",
                                texts |-> texts, result |-> <<>>]>>
            /\ UNCHANGED <<embedding_cache, delegate_calls>>
       ELSE LET cached == get_batch(texts)
                miss_indices == SortedSeq({i \in 1..Len(texts) : i \notin DOMAIN cached})
            IN IF miss_indices = <<>>
               THEN /\ last_embed' = <<[n |-> NextCallNo, op |-> "embed_texts",
                                        texts |-> texts,
                                        result |-> [i \in 1..Len(texts) |-> cached[i]]]>>
                    /\ UNCHANGED <<embedding_cache, delegate_calls>>
               ELSE LET miss_texts == [k \in 1..Len(miss_indices) |-> texts[miss_indices[k]]]
                        miss_embeddings == [k \in 1..Len(miss_texts) |->
                                              Embedding(miss_texts[k], gen)]
                        result == [i \in 1..Len(texts) |->
                                     IF i \in DOMAIN cached THEN cached[i]
                                     ELSE Embedding(texts[i], gen)]
                    IN /\ delegate_calls' = Append(delegate_calls, miss_texts)
                       /\ embedding_cache' = put_batch(embedding_cache, miss_texts,
                                                       miss_embeddings)
                       /\ last_embed' = <<[n |-> NextCallNo, op |-> "embed_texts",
                                           texts |-> texts, result |-> result]>>
  /\ UNCHANGED <<pipelineVars, limiterVars, bm25Vars, fnVars, libVars>>

InitEmbedder == NoRequest /\ ComponentsInit

NextEmbedder ==
  \/ EmbedQuery
  \/ EmbedTexts

SpecEmbedder == InitEmbedder /\ [][NextEmbedder]_vars

\* ---------------------------------------------------------------- BM25Index
\* the number of rebuilds followed
MaxRebuilds == 2

\* the chunk lists a rebuild may be given: none, or all chunks of the store
\* (ordered by doc_id, chunk_index) after a document was added before or
\* after the loaded ones
RebuildInputs == {<<>>, <<"k0", "k1", "k2">>, <<"k1", "k2", "k3">>}

\* how a search ended: with a list, or with an exception
Returned(items) == [raised |-> "", items |-> items]
Raised(exception) == [raised |-> exception, items |-> <<>>]

\* rebuild: the write lock is taken, build starts in a worker thread
RebuildStart ==
  /\ ~write_lock
  /\ rebuilds < MaxRebuilds
  /\ \E chunks \in RebuildInputs :
       /\ build_chunks' = chunks
       /\ indexes' = indexes \cup {chunks}
  /\ write_lock' = TRUE
  /\ build_pc' = "chunk_ids"
  /\ rebuilds' = rebuilds + 1
  /\ UNCHANGED <<bm25, chunk_ids, tokenized_corpus, search_pc, search_scores,
                 search_out, search_result, pipelineVars, limiterVars, embedVars, fnVars, libVars>>

\* build: self._chunk_ids = [c.chunk_id for c in chunks]
BuildChunkIds ==
  /\ build_pc = "chunk_ids"
  /\ chunk_ids' = build_chunks
  /\ build_pc' = "tokenized_corpus"
  /\ UNCHANGED <<bm25, tokenized_corpus, write_lock, build_chunks, rebuilds,
                 indexes, search_pc, search_scores, search_out, search_result,
                 pipelineVars, limiterVars, embedVars, fnVars, libVars>>

\* build: self._tokenized_corpus = [tokenize(c.text) for c in chunks]
BuildCorpus ==
  /\ build_pc = "tokenized_corpus"
  /\ tokenized_corpus' = build_chunks
  /\ build_pc' = "bm25"
  /\ UNCHANGED <<bm25, chunk_ids, write_lock, build_chunks, rebuilds, indexes,
                 search_pc, search_scores, search_out, search_result,
                 pipelineVars, limiterVars, embedVars, fnVars, libVars>>

\* build: self._bm25 = BM25Okapi(corpus), or None for an empty corpus
BuildScorer ==
  /\ build_pc = "bm25"
  /\ bm25' = IF tokenized_corpus # <<>> THEN <<tokenized_corpus>> ELSE <<>>
  /\ build_pc' = "built"
  /\ UNCHANGED <<chunk_ids, tokenized_corpus, write_lock, build_chunks, rebuilds,
                 indexes, search_pc, search_scores, search_out, search_result,
                 pipelineVars, limiterVars, embedVars, fnVars, libVars>>

\* rebuild: to_thread has returned, the write lock is released
RebuildEnd ==
  /\ build_pc = "built"
  /\ write_lock' = FALSE
  /\ build_pc' = "idle"
  /\ UNCHANGED <<bm25, chunk_ids, tokenized_corpus, build_chunks, rebuilds,
                 indexes, search_pc, search_scores, search_out, search_result,
                 pipelineVars, limiterVars, embedVars, fnVars, libVars>>

\* search, its first test: no scorer or no chunk ids gives []
SearchStart ==
  /\ search_pc \in {"idle", "returned"}
  /\ IF bm25 = <<>> \/ chunk_ids = <<>>
     THEN /\ search_result' = <<Returned(<<>>)>>
          /\ search_pc' = "returned"
     ELSE /\ search_result' = <<>>
          /\ search_pc' = "get_scores"
  /\ search_scores' = <<>>
  /\ search_out' = <<>>
  /\ UNCHANGED <<bm25, chunk_ids, tokenized_corpus, write_lock, build_pc,
                 build_chunks, rebuilds, indexes, pipelineVars, limiterVars,
                 embedVars, fnVars, libVars>>

\* search: scores = self._bm25.get_scores(tokenized_query); self._bm25 is
\* read again, and every row of the scorer's corpus gets a positive score
SearchScores ==
  /\ search_pc = "get_scores"
  /\ IF bm25 = <<>>
     THEN /\ search_result' = <<Raised("AttributeError")>>
          /\ search_pc' = "returned"
          /\ UNCHANGED search_scores
     ELSE /\ search_scores' = bm25[1]
          /\ search_pc' = "collect"
          /\ UNCHANGED search_result
  /\ UNCHANGED <<bm25, chunk_ids, tokenized_corpus, write_lock, build_pc,
                 build_chunks, rebuilds, indexes, search_out, pipelineVars,
                 limiterVars, embedVars, fnVars, libVars>>

\* search: one round of the result comprehension, (self._chunk_ids[i],
\* scores[i]); the item records the chunk id and the row the score is of
SearchItem ==
  /\ search_pc = "collect"
  /\ Len(search_out) < Len(search_scores)
  /\ LET i == Len(search_out) + 1
     IN IF i > Len(chunk_ids)
        THEN /\ search_result' = <<Raised("IndexError")>>
             /\ search_pc' = "returned"
             /\ UNCHANGED search_out
        ELSE /\ search_out' = Append(search_out,
                                     [chunk_id |-> chunk_ids[i],
                                      score_of |-> search_scores[i]])
             /\ UNCHANGED <<search_result, search_pc>>
  /\ UNCHANGED <<bm25, chunk_ids, tokenized_corpus, write_lock, build_pc,
                 build_chunks, rebuilds, indexes, search_scores, pipelineVars,
                 limiterVars, embedVars, fnVars, libVars>>

\* search returns the list
SearchReturn ==
  /\ search_pc = "collect"
  /\ Len(search_out) = Len(search_scores)
  /\ search_result' = <<Returned(search_out)>>
  /\ search_pc' = "returned"
  /\ UNCHANGED <<bm25, chunk_ids, tokenized_corpus, write_lock, build_pc,
                 build_chunks, rebuilds, indexes, search_scores, search_out,
                 pipelineVars, limiterVars, embedVars, fnVars, libVars>>

InitBM25 == NoRequest /\ ComponentsInit

NextBM25 ==
  \/ RebuildStart
  \/ BuildChunkIds
  \/ BuildCorpus
  \/ BuildScorer
  \/ RebuildEnd
  \/ SearchStart
  \/ SearchScores
  \/ SearchItem
  \/ SearchReturn

SpecBM25 == InitBM25 /\ [][NextBM25]_vars

\* ------------------------------------------------ QueryPipeline._deduplicate
\* the longest candidate list _deduplicate is applied to
MaxCandidates == 3

\* RetrievalCandidate: a chunk with the score one retrieval gave it
Candidates == {[chunk_id |-> id, score |-> sc] : id \in {"c1", "c2"}, sc \in {1, 2, 3}}

Replaces_lowerScore(c, existing) == c.score < existing.score

\* the test of the loop, for a chunk id that is in seen
Replaces(c, existing) == c.score > existing.score

\* one round of the loop; seen is the dict, as its values in insertion order
SeenAfter(seen, c) ==
  IF \E k \in 1..Len(seen) : seen[k].chunk_id = c.chunk_id
  THEN LET k == CHOOSE j \in 1..Len(seen) : seen[j].chunk_id = c.chunk_id
       IN IF Replaces(c, seen[k]) THEN [seen EXCEPT ![k] = c] ELSE seen
  ELSE Append(seen, c)

RECURSIVE DedupLoop(_, _)
DedupLoop(seen, candidates) ==
  IF candidates = <<>> THEN seen
  ELSE DedupLoop(SeenAfter(seen, Head(candidates)), Tail(candidates))

\* QueryPipeline._deduplicate: list(seen.values())
deduplicate(candidates) == DedupLoop(<<>>, candidates)

\* STEP 3 applies _deduplicate to what the sub-questions retrieved
Deduplicate ==
  /\ dedup_out = <<>>
  /\ dedup_out' = <<deduplicate(dedup_in)>>
  /\ UNCHANGED <<dedup_in, fallback_in, pipelineVars, limiterVars, embedVars,
                 bm25Vars, libVars>>

InitDedup ==
  /\ NoRequest
  /\ LimiterInit
  /\ EmbedderInit
  /\ BM25Init
  /\ LibIdle
  /\ dedup_in \in SeqsUpTo(Candidates, MaxCandidates)
  /\ dedup_out = <<>>
  /\ fallback_in = <<>>

SpecDedup == InitDedup /\ [][Deduplicate]_vars

\* ------------------------------------------ FallbackManager.fallback_retrieve
\* how the rewrite request ended: the structured call answered, or it
\* raised and the manual parse answered, or both raised
RewriteOutcomes == {"structured", "manual", "failed"}

\* the expanded retrievals and the rewrite retrievals a fallback may meet
FallbackExpanded ==
  ExpandedLists \cup {ScoredList(<<"c4", "c2">>, 55, <<>>)}

FallbackRewrites ==
  RewriteLists \cup {ScoredList(<<"c5">>, 80, <<>>)}

\* query_rewrite with its two LLM requests: [] when both raise
rewrites_of(outcome, llm_rewrites) ==
  IF outcome = "failed" THEN <<>> ELSE query_rewrite(llm_rewrites)

\* a request in the fallback band of its mode reaches fallback_retrieve
FallbackRetrieve ==
  /\ pc = "gate"
  /\ fallback_result = <<>>
  /\ fallback_result' =
       <<fallback_retrieve(fallback_in[1].expanded,
                           rewrites_of(fallback_in[1].outcome,
                                       fallback_in[1].llm_rewrites))>>
  /\ UNCHANGED <<api, mode, pc, all_candidates, reranked, rq_score, rq_reasons,
                 genVars, verVars, outVars, spans, invoked, raised, compVars>>

InitFallback ==
  /\ LimiterInit
  /\ EmbedderInit
  /\ BM25Init
  /\ LibIdle
  /\ dedup_in = <<>>
  /\ dedup_out = <<>>
  /\ api = "execute"
  /\ mode \in Modes
  /\ pc = "gate"
  /\ all_candidates = <<"c1", "c2">>
  /\ reranked = ScoredList(<<"c1", "c2">>, 40, <<>>)
  /\ rq_score = 40
  /\ rq_reasons = <<>>
  /\ fallback_result = <<>>
  /\ BlankGeneration
  /\ BlankVerification
  /\ BlankOutput
  /\ spans = <<"query_understanding", "decomposition", "retrieval", "reranking",
               "rq_scoring">>
  /\ invoked = <<>>
  /\ fallback_in \in
       {<<[expanded |-> e, outcome |-> o, llm_rewrites |-> rw]>> :
          e \in FallbackExpanded, o \in RewriteOutcomes,
          rw \in SeqsUpTo(FallbackRewrites, MaxLLMRewrites)}

SpecFallback == InitFallback /\ [][FallbackRetrieve]_vars

\* ------------------------------------------------- reciprocal_rank_fusion
\* the chunk ids the two backends may return
ChunkIds == {"k1", "k2", "k3"}

\* the longest backend result followed (top_k_bm25, top_k_vector)
MaxResults == 2

\* k of reciprocal_rank_fusion
rrf_k == 60

RECURSIVE ScaleUpTo(_)
\* the common denominator of 1 / (k + rank + 1) for the ranks 0 .. n - 1
ScaleUpTo(n) == IF n = 0 THEN 1 ELSE (rrf_k + n) * ScaleUpTo(n - 1)

\* longest result list any fusion of the model is given
MaxRank == MaxResults + 1

\* 1.0 / (k + rank + 1), rank counted from 0, as a multiple of 1 / ScaleUpTo(MaxRank)
RrfWeight(rank) == ScaleUpTo(MaxRank) \div (rrf_k + rank + 1)

\* variant of the accumulation that keeps one entry per occurrence
AddScore_alwaysAppend(scores, chunk_id, w) ==
  Append(scores, [chunk_id |-> chunk_id, score |-> w])

\* scores[chunk_id] += w on a defaultdict(float): a new key goes last
AddScore(scores, chunk_id, w) ==
  IF \E i \in 1..Len(scores) : scores[i].chunk_id = chunk_id
  THEN [i \in 1..Len(scores) |->
          IF scores[i].chunk_id = chunk_id
          THEN [chunk_id |-> chunk_id, score |-> scores[i].score + w]
          ELSE scores[i]]
  ELSE Append(scores, [chunk_id |-> chunk_id, score |-> w])

RECURSIVE AddList(_, _, _)
\* for rank, (chunk_id, _) in enumerate(result_list), from position rank + 1 on
AddList(scores, result_list, rank) ==
  IF rank >= Len(result_list) THEN scores
  ELSE AddList(AddScore(scores, result_list[rank + 1], RrfWeight(rank)),
               result_list, rank + 1)

RECURSIVE AddLists(_, _)
\* for result_list in result_lists
AddLists(scores, result_lists) ==
  IF result_lists = <<>> THEN scores
  ELSE AddLists(AddList(scores, Head(result_lists), 0), Tail(result_lists))

\* one step of the stable sort: item goes after every item scoring >= it
InsertDesc(sorted, item) ==
  LET before == SelectSeq(sorted, LAMBDA x : x.score >= item.score)
      after == SelectSeq(sorted, LAMBDA x : x.score < item.score)
  IN before \o <<item>> \o after

RECURSIVE SortedDesc(_, _)
\* sorted(scores.items(), key=score, reverse=True): stable, so items of equal
\* score stay in dictionary (first insertion) order
SortedDesc(sorted, items) ==
  IF items = <<>> THEN sorted
  ELSE SortedDesc(InsertDesc(sorted, Head(items)), Tail(items))

\* reciprocal_rank_fusion; a result list is given by its chunk ids, the
\* backend scores are not read
reciprocal_rank_fusion(result_lists) == SortedDesc(<<>>, AddLists(<<>>, result_lists))

\* ------------------------------------------- HybridRetrieverImpl.retrieve
\* FAISSVectorStore.search: hits in score order; a chunk id added twice is
\* returned twice
VectorResults == SeqsUpTo(ChunkIds, MaxResults)

\* BM25Index.search: every chunk of the corpus at most once
Bm25Results == {s \in SeqsUpTo(ChunkIds, MaxResults) :
                  \A i, j \in 1..Len(s) : i # j => s[i] # s[j]}

RetrievalCandidate(chunk, score, source_method) ==
  [chunk |-> chunk, score |-> score, source_method |-> source_method]

\* steps 1 to 3: embed, search both backends, fuse; [] when nothing is fused
HybridSearch ==
  /\ hybrid.pc = "idle"
  /\ \E vector_results \in VectorResults, bm25_results \in Bm25Results :
       LET fused == reciprocal_rank_fusion(<<vector_results, bm25_results>>)
       IN hybrid' = [hybrid EXCEPT !.vector_results = vector_results,
                                   !.bm25_results = bm25_results,
                                   !.fused = fused,
                                   !.pc = IF fused = <<>> THEN "returned" ELSE "lookup"]
  /\ UNCHANGED <<pipelineVars, limiterVars, embedVars, bm25Vars, fnVars, rrfVars, faiss,
                 ingest>>

\* steps 4 and 5: get_chunks_by_ids returns the rows the store holds at that
\* moment; the candidates follow the fused order
HybridLookup ==
  /\ hybrid.pc = "lookup"
  /\ \E stored \in SUBSET ChunkIds :
       LET chunks_map == stored \cap {hybrid.fused[i].chunk_id : i \in 1..Len(hybrid.fused)}
           found == SelectSeq(hybrid.fused, LAMBDA f : f.chunk_id \in chunks_map)
       IN hybrid' = [hybrid EXCEPT
                       !.chunks_map = chunks_map,
                       !.store_queries = @ + 1,
                       !.candidates = [i \in 1..Len(found) |->
                                         RetrievalCandidate(found[i].chunk_id,
                                                            found[i].score, "hybrid")],
                       !.pc = "returned"]
  /\ UNCHANGED <<pipelineVars, limiterVars, embedVars, bm25Vars, fnVars, rrfVars, faiss,
                 ingest>>

InitHybrid == NoRequest /\ ComponentsInit

NextHybrid == HybridSearch \/ HybridLookup

SpecHybrid == InitHybrid /\ [][NextHybrid]_vars

\* ------------------------------------- reciprocal_rank_fusion on its own
\* how many result lists a fusion is given
MaxLists == 2

\* a backend result list: chunk ids, none repeated
ResultLists == Bm25Results

\* the same lists in every order
OrderingsOf(lists) ==
  {[i \in 1..Len(lists) |-> lists[f[i]]] : f \in Permutations(1..Len(lists))}

\* the chunk ids of a fused ranking, in rank order
RankedIds(fused) == [i \in 1..Len(fused) |-> fused[i].chunk_id]

\* the lists are fused once in every order
Fuse ==
  /\ rrf_out = <<>>
  /\ rrf_out' = <<[o \in OrderingsOf(rrf_in) |-> reciprocal_rank_fusion(o)]>>
  /\ UNCHANGED <<rrf_in, hybrid, faiss, ingest, pipelineVars, limiterVars, embedVars,
                 bm25Vars, fnVars>>

InitRrf ==
  /\ NoRequest
  /\ LimiterInit
  /\ EmbedderInit
  /\ BM25Init
  /\ DedupIdle
  /\ hybrid = HybridIdle
  /\ faiss = FaissEmpty
  /\ ingest = IngestIdle({})
  /\ rrf_in \in {s \in SeqsUpTo(ResultLists, MaxLists) : s # <<>>}
  /\ rrf_out = <<>>

SpecRrf == InitRrf /\ [][Fuse]_vars

\* ------------------------------------------------------ FAISSVectorStore
\* add and add_safe calls followed in one run
MaxAdds == 3

\* the chunk id lists an add is called with: none, new ids, ids added before,
\* the same id twice in one call
AddInputs ==
  {<<>>, <<"k1">>, <<"k2", "k1">>, <<"k1", "k1">>, <<"k3", "k2">>, <<"k3">>}

\* variant of the assignment that does not advance next_id
assign_one_noBump(st, cid) ==
  IF cid \in DOMAIN st.chunk_id_to_int THEN st
  ELSE [st EXCEPT !.id_to_chunk_id = (st.next_id :> cid) @@ @,
                  !.chunk_id_to_int = (cid :> st.next_id) @@ @]

\* the loop body of _assign_int_ids for one chunk id
assign_one(st, cid) ==
  IF cid \in DOMAIN st.chunk_id_to_int THEN st
  ELSE [st EXCEPT !.id_to_chunk_id = (st.next_id :> cid) @@ @,
                  !.chunk_id_to_int = (cid :> st.next_id) @@ @,
                  !.next_id = @ + 1]

RECURSIVE assign_int_ids(_, _)
\* FAISSVectorStore._assign_int_ids: the store after the loop
assign_int_ids(st, cids) ==
  IF cids = <<>> THEN st
  ELSE assign_int_ids(assign_one(st, Head(cids)), Tail(cids))

\* FAISSVectorStore.add: nothing for an empty list; otherwise the ids are
\* assigned and add_with_ids stores the vectors, or raises after the assignment
add(st, cids, index_ok) ==
  IF Len(cids) = 0 THEN st
  ELSE LET assigned == assign_int_ids(st, cids)
       IN IF index_ok
          THEN [assigned EXCEPT !.ntotal = @ + Len(cids)]
          ELSE [assigned EXCEPT !.raised = @ + 1]

\* add called directly, with no add_safe call holding the lock
Add ==
  /\ faiss.adds < MaxAdds
  /\ faiss.write_lock = ""
  /\ \E cids \in AddInputs, index_ok \in BOOLEAN :
       faiss' = [add(faiss, cids, index_ok) EXCEPT !.adds = @ + 1]
  /\ UNCHANGED <<pipelineVars, limiterVars, embedVars, bm25Vars, fnVars, rrfVars, hybrid,
                 ingest>>

\* add_safe is called: the caller waits for the write lock
AddSafeCall(t) ==
  /\ faiss.adds < MaxAdds
  /\ faiss.calls[t].pc = "idle"
  /\ \E cids \in AddInputs :
       faiss' = [faiss EXCEPT !.calls[t] = [pc |-> "waiting", chunk_ids |-> cids],
                              !.adds = @ + 1]
  /\ UNCHANGED <<pipelineVars, limiterVars, embedVars, bm25Vars, fnVars, rrfVars, hybrid,
                 ingest>>

\* async with self._write_lock
AddSafeAcquire(t) ==
  /\ faiss.calls[t].pc = "waiting"
  /\ faiss.write_lock = ""
  /\ faiss' = [faiss EXCEPT !.write_lock = t, !.calls[t].pc = "locked"]
  /\ UNCHANGED <<pipelineVars, limiterVars, embedVars, bm25Vars, fnVars, rrfVars, hybrid,
                 ingest>>

\* await asyncio.to_thread(self.add, ...): add runs in a worker thread
AddSafeRun(t) ==
  /\ faiss.calls[t].pc = "locked"
  /\ \E index_ok \in BOOLEAN :
       faiss' = [add(faiss, faiss.calls[t].chunk_ids, index_ok)
                   EXCEPT !.calls[t].pc = "added"]
  /\ UNCHANGED <<pipelineVars, limiterVars, embedVars, bm25Vars, fnVars, rrfVars, hybrid,
                 ingest>>

\* the lock is released, on return and on an exception alike
AddSafeRelease(t) ==
  /\ faiss.calls[t].pc = "added"
  /\ faiss' = [faiss EXCEPT !.write_lock = "",
                            !.calls[t] = [pc |-> "idle", chunk_ids |-> <<>>]]
  /\ UNCHANGED <<pipelineVars, limiterVars, embedVars, bm25Vars, fnVars, rrfVars, hybrid,
                 ingest>>

InitFaiss ==
  /\ NoRequest
  /\ LimiterInit
  /\ EmbedderInit
  /\ BM25Init
  /\ DedupIdle
  /\ hybrid = HybridIdle
  /\ RrfIdle
  /\ ingest = IngestIdle({})
  /\ faiss \in {FaissEmpty, FaissLoaded}

NextFaiss ==
  \/ Add
  \/ \E t \in AddTasks : AddSafeCall(t)
  \/ \E t \in AddTasks : AddSafeAcquire(t)
  \/ \E t \in AddTasks : AddSafeRun(t)
  \/ \E t \in AddTasks : AddSafeRelease(t)

SpecFaiss == InitFaiss /\ [][NextFaiss]_vars

\* ------------------------------------------- IngestionPipeline.ingest_file
\* the chunks of the file ingest call t reads (one chunk, named by the call)
ChunksOf(t) == {t}

\* a chunk stored by an earlier run
OldChunk == 0

IngestUnchanged ==
  UNCHANGED <<pipelineVars, limiterVars, embedVars, bm25Vars, fnVars, rrfVars, hybrid,
              faiss>>

\* steps 1 to 6: the file is read, chunked, embedded and added to FAISS
IngestStart(t) ==
  /\ ingest.calls[t].pc = "idle"
  /\ ingest' = [ingest EXCEPT !.calls[t].pc = "save_chunks"]
  /\ IngestUnchanged

\* await self._doc_store.save_chunks(chunks): INSERT OR REPLACE, commit
SaveChunks(t) ==
  /\ ingest.calls[t].pc = "save_chunks"
  /\ ingest' = [ingest EXCEPT !.store = @ \cup ChunksOf(t),
                              !.calls[t].pc = "get_all_chunks"]
  /\ IngestUnchanged

\* get_all_chunks: the SELECT runs on the connection's thread and reads the
\* rows stored at that moment
SelectAllChunks(t) ==
  /\ ingest.calls[t].pc = "get_all_chunks"
  /\ ingest' = [ingest EXCEPT !.calls[t].all_chunks = ingest.store,
                              !.calls[t].pc = "fetched"]
  /\ IngestUnchanged

\* the cursor and the connection are closed, get_all_chunks returns, and
\* rebuild asks for the write lock: taken at once when it is free and nobody
\* waits, queued otherwise
RebuildAcquire(t) ==
  /\ ingest.calls[t].pc = "fetched"
  /\ ingest' = IF ingest.write_lock = 0 /\ ingest.waiters = <<>>
               THEN [ingest EXCEPT !.write_lock = t, !.calls[t].pc = "locked"]
               ELSE [ingest EXCEPT !.waiters = Append(@, t),
                                   !.calls[t].pc = "waiting"]
  /\ IngestUnchanged

\* await asyncio.to_thread(self.build, chunks): the index is replaced by one
\* built from the chunks handed to rebuild
RebuildBuild(t) ==
  /\ ingest.calls[t].pc = "locked"
  /\ ingest.write_lock = t
  /\ ingest' = [ingest EXCEPT !.bm25_chunk_ids = ingest.calls[t].all_chunks,
                              !.calls[t].pc = "built"]
  /\ IngestUnchanged

\* the lock is released and passed to the first waiter
RebuildRelease(t) ==
  /\ ingest.calls[t].pc = "built"
  /\ ingest' =
       IF ingest.waiters = <<>>
       THEN [ingest EXCEPT !.write_lock = 0, !.calls[t].pc = "persist"]
       ELSE [ingest EXCEPT !.write_lock = Head(ingest.waiters),
                           !.waiters = Tail(@),
                           !.calls[t].pc = "persist",
                           !.calls[Head(ingest.waiters)].pc = "locked"]
  /\ IngestUnchanged

\* step 8: both indexes are saved, ingest_file returns
IngestReturn(t) ==
  /\ ingest.calls[t].pc = "persist"
  /\ ingest' = [ingest EXCEPT !.calls[t].pc = "returned"]
  /\ IngestUnchanged

InitIngest ==
  /\ NoRequest
  /\ LimiterInit
  /\ EmbedderInit
  /\ BM25Init
  /\ DedupIdle
  /\ hybrid = HybridIdle
  /\ RrfIdle
  /\ faiss = FaissEmpty
  /\ ingest \in {IngestIdle({}), IngestIdle({OldChunk})}

NextIngest ==
  \/ \E t \in IngestTasks : IngestStart(t)
  \/ \E t \in IngestTasks : SaveChunks(t)
  \/ \E t \in IngestTasks : SelectAllChunks(t)
  \/ \E t \in IngestTasks : RebuildAcquire(t)
  \/ \E t \in IngestTasks : RebuildBuild(t)
  \/ \E t \in IngestTasks : RebuildRelease(t)
  \/ \E t \in IngestTasks : IngestReturn(t)

SpecIngest == InitIngest /\ [][NextIngest]_vars

\* ================================================================ claims
Count(s, x) == Cardinality({i \in 1..Len(s) : s[i] = x})

Responded == response # <<>>

\* C1: the RQ gate.  From the gate, rq < 0.25 ends the request in abstain
\* with no collaborator invoked; 0.25 <= rq < proceed(mode) (0.55 normal,
\* 0.70 strict) invokes the fallback manager, first of all; rq >= proceed(mode)
\* invokes generation.  The fallback manager is never invoked at any other
\* point, so at most once and never after a generation, and a delivered
\* request invokes nothing further and keeps its response.
C1_RqGate ==
  /\ [][pc = "gate" =>
          IF rq_score < 25
          THEN /\ pc' = "done"
               /\ response' # <<>>
               /\ response'[1].decision = "abstain"
               /\ invoked' = <<>>
          ELSE IF rq_score < (IF mode = "strict" THEN 70 ELSE 55)
               THEN invoked' = <<"fallback">>
               ELSE invoked' = <<"generate">>]_vars
  /\ [][pc # "gate" => Count(invoked', "fallback") = Count(invoked, "fallback")]_vars
  /\ [][pc = "done" => (invoked' = invoked /\ response' = response /\ pc' = pc)]_vars

C1_Witness ==
  /\ mode = "strict"
  /\ Len(invoked) >= 2
  /\ invoked[1] = "fallback"
  /\ invoked[2] = "generate"
  /\ fallback_result # <<>>
  /\ Responded

\* C2: whenever the verifier has decided, the decision of the response is
\* answer for pass, clarify for warn and abstain for abstain, in both modes.
C2_DecisionMapping ==
  (Responded /\ verification # <<>>) =>
     response[1].decision =
       CASE verification[1].decision = "pass" -> "answer"
         [] verification[1].decision = "warn" -> "clarify"
         [] verification[1].decision = "abstain" -> "abstain"

C2_Witness ==
  /\ Responded
  /\ verification # <<>>
  /\ mode = "strict"
  /\ verification[1].decision = "warn"
  /\ response[1].decision = "clarify"

\* C7: decide returns pass iff g >= pass_g(mode) and c <= pass_c(mode)
\* (0.70/0.20 normal, 0.85/0.10 strict), otherwise warn iff g >= 0.50 and
\* c <= 0.40, otherwise abstain; so a strict-mode response with decision
\* answer has g >= 0.85 and c <= 0.10.
C7_Decide ==
  verification # <<>> =>
    LET g == groundedness_score
        c == contradiction_rate
        d == verification[1].decision
        passes == IF mode = "strict" THEN g >= 85 /\ c <= 10
                  ELSE g >= 70 /\ c <= 20
        warns == ~passes /\ g >= 50 /\ c <= 40
    IN /\ d \in {"pass", "warn", "abstain"}
       /\ (d = "pass") <=> passes
       /\ (d = "warn") <=> warns
       /\ (d = "abstain") <=> (~passes /\ ~warns)
       /\ (Responded /\ mode = "strict" /\ response[1].decision = "answer")
            => (g >= 85 /\ c <= 10)

C7_Witness ==
  /\ verification # <<>>
  /\ mode = "strict"
  /\ groundedness_score = 85
  /\ contradiction_rate = 10
  /\ Responded
  /\ response[1].decision = "answer"


\* how the RQ gate disposed of a delivered request
GateOutcome ==
  IF invoked = <<>> THEN "abstain"
  ELSE IF invoked = <<"fallback">> THEN "fallback-abstain"
       ELSE "proceed"

VerifierDecision == IF verification = <<>> THEN "none" ELSE verification[1].decision

\* the generated answer contains a phrase of the refusal allow-list,
\* in lower or in upper case
HasRefusalPhrase ==
  \E i \in 1..Len(full_answer) :
     full_answer[i] \in {"does not contain information", "UNABLE TO ANSWER",
                         "unable to answer", "Does Not Address"}

\* C3 as claimed: the decision of a response is a function of the RQ gate
\* outcome and the verifier decision alone: abstain when the gate (or the
\* fallback) abstained; otherwise the mapped verifier decision; and one fixed
\* decision when the gate let the request proceed and the verifier gave
\* none (clarify is reachable for that pair, so that is the fixed value).
C3_Original ==
  Responded =>
    response[1].decision =
      CASE GateOutcome # "proceed" -> "abstain"
        [] GateOutcome = "proceed" /\ VerifierDecision = "pass" -> "answer"
        [] GateOutcome = "proceed" /\ VerifierDecision = "warn" -> "clarify"
        [] GateOutcome = "proceed" /\ VerifierDecision = "abstain" -> "abstain"
        [] GateOutcome = "proceed" /\ VerifierDecision = "none" -> "clarify"

\* C3 amended: the decision is a function of the RQ gate outcome, the
\* verifier decision and, when the generated answer matches a refusal
\* pattern, of that match and the rq score in effect.  A request that
\* passed the gate has no verifier decision exactly when its answer matches
\* a refusal pattern; it then gets clarify or abstain, clarify whenever rq
\* reaches the proceed threshold of its mode and abstain whenever rq < 0.55.
C3_DecisionFunction ==
  Responded =>
    /\ (GateOutcome = "proceed" /\ VerifierDecision = "none") <=>
         (gen_result # <<>> /\ HasRefusalPhrase)
    /\ CASE GateOutcome # "proceed" -> response[1].decision = "abstain"
         [] GateOutcome = "proceed" /\ VerifierDecision = "pass" ->
              response[1].decision = "answer"
         [] GateOutcome = "proceed" /\ VerifierDecision = "warn" ->
              response[1].decision = "clarify"
         [] GateOutcome = "proceed" /\ VerifierDecision = "abstain" ->
              response[1].decision = "abstain"
         [] GateOutcome = "proceed" /\ VerifierDecision = "none" ->
              /\ response[1].decision \in {"clarify", "abstain"}
              /\ rq_score >= (IF mode = "strict" THEN 70 ELSE 55) =>
                   response[1].decision = "clarify"
              /\ rq_score < 55 => response[1].decision = "abstain"

C3_Witness ==
  /\ Responded
  /\ GateOutcome = "proceed"
  /\ VerifierDecision = "none"
  /\ HasRefusalPhrase
  /\ rq_score < 55
  /\ response[1].decision = "abstain"

\* C4: every response with decision abstain carries the one fixed refusal
\* string, no citations and confidence 0.0, on every path, from execute and
\* in the metadata event of execute_stream.
C4_AbstainPresentation ==
  (Responded /\ response[1].decision = "abstain") =>
     /\ response[1].answer = ABSTAIN_RETRIEVAL_TEXT
     /\ response[1].citations = <<>>
     /\ response[1].confidence = 0

\* C5: every response with decision clarify has the generated answer
\* followed by the caveat as answer, the generator's cited chunks as
\* citations, and as confidence the confidence-scorer value on the verifier
\* path and rq * 0.5 on the self-admitted-ignorance path.
C5_ClarifyPresentation ==
  (Responded /\ response[1].decision = "clarify") =>
     /\ response[1].answer = gen_result[1].answer \o CAVEAT_TEXT
     /\ response[1].citations = gen_result[1].cited_chunks
     /\ response[1].confidence =
          IF verification # <<>>
          THEN Clamp(50 * rq_score + 35 * groundedness_score
                       - 15 * contradiction_rate, 0, 10000)
          ELSE 50 * rq_score

\* C6: an answer with a refusal pattern gets clarify when the rq in effect
\* is >= the proceed threshold of the request's mode (0.55 normal, 0.70
\* strict) and abstain otherwise; an answer without one goes to the verifier.
C6_TwoArmPolicy ==
  (Responded /\ gen_result # <<>>) =>
     IF HasRefusalPhrase
     THEN /\ verification = <<>>
          /\ response[1].decision =
               IF rq_score >= (IF mode = "strict" THEN 70 ELSE 55)
               THEN "clarify" ELSE "abstain"
     ELSE verification # <<>>

\* the answer text s contains a marker [n]
HasMarker(s, n) ==
  \E i \in 1..Len(s), j \in 1..Len(s) :
     /\ j > i + 1
     /\ s[i] = "["
     /\ s[j] = "]"
     /\ \A k \in (i + 1)..(j - 1) : s[k] \in {"0", "1", "2"}
     /\ IntOf(s, i + 1, j - 1) = n

\* 1-based position of a chunk in the evidence block, 0 when it is not in it
BlockPosition(ch) ==
  IF \E n \in DOMAIN evidence_block : evidence_block[n].chunk = ch
  THEN CHOOSE n \in DOMAIN evidence_block : evidence_block[n].chunk = ch
  ELSE 0

\* C8: in a response with decision answer or clarify, a chunk is among the
\* citations iff the answer text has a marker [n] with n the chunk's
\* position in the evidence block given to the generator (at most 10
\* entries); markers outside the block cite nothing; each cited chunk occurs
\* once, in ascending order of n.
C8_CitationRoundTrip ==
  (Responded /\ response[1].decision \in {"answer", "clarify"}) =>
     LET cit == response[1].citations
         chunks == Range(all_candidates) \cup Range(reranked.chunks) \cup Range(cit)
     IN /\ Len(evidence_block) <= 10
        /\ \A ch \in chunks :
             (ch \in Range(cit)) <=>
               (BlockPosition(ch) # 0 /\ HasMarker(response[1].answer, BlockPosition(ch)))
        /\ \A a \in DOMAIN cit, b \in DOMAIN cit :
             a < b => BlockPosition(cit[a]) < BlockPosition(cit[b])

C8_Witness ==
  /\ Responded
  /\ response[1].decision = "answer"
  /\ Len(reranked.chunks) = 10
  /\ HasMarker(response[1].answer, 10)
  /\ ~HasMarker(response[1].answer, 2)
  /\ Len(response[1].citations) = 1
  /\ BlockPosition(response[1].citations[1]) = 10

\* C9: an early exit of execute_stream (RQ-gate abstain, fallback abstain,
\* self-admitted-ignorance abstain or clarify) has emitted exactly one
\* metadata event, then one done event, and no token event.
C9_EarlyExitEvents ==
  (api = "stream" /\ pc = "done" /\ verification = <<>>) =>
     /\ Len(events) = 2
     /\ events[1].event = "metadata"
     /\ events[2].event = "done"

\* C10: a failed generation ends the request with an error, no response and
\* no token event delivered; a failed groundedness or contradiction check
\* yields its neutral default (0.5, 0.0), raises nothing, and a decision
\* is still produced.
C10_ErrorAsymmetry ==
  /\ (raised /\ Count(invoked, "generate") > 0) =>
        (response = <<>> /\ \A i \in 1..Len(events) : events[i].event # "token")
  /\ gpc = "failed" => (groundedness_score = 50 /\ ~raised)
  /\ cpc = "failed" => (contradiction_rate = 0 /\ ~raised)
  /\ (pc = "done" /\ (gpc = "failed" \/ cpc = "failed")) =>
        (Responded /\ verification # <<>>)

\* C11: when a hard pipeline error has left execute / execute_stream, the
\* error has reached the caller and one trace with decision abstain has been
\* handed to the trace store for that request.
C11_HardErrorTrace ==
  raised =>
    /\ response = <<>>
    /\ Len(traces) = 1
    /\ traces[1].trace.decision = "abstain"

\* C12: a call that has delivered a response has scheduled exactly one trace
\* save, with the trace id and the decision of the response, on every exit
\* path; nothing is scheduled before; the response is delivered while the
\* save is still pending and stays as delivered when the save completes or
\* fails.
C12_OneTraceSave ==
  /\ [](Responded =>
          /\ Len(traces) = 1
          /\ traces[1].trace.trace_id = response[1].trace_id
          /\ traces[1].trace.decision = response[1].decision)
  /\ [](~Responded => traces = <<>>)
  /\ [][(~Responded /\ response' # <<>>) =>
          (Len(traces') = 1 /\ traces'[1].state = "pending")]_vars
  /\ [][Responded => (response' = response /\ events' = events)]_vars

C12_Witness ==
  /\ Responded
  /\ api = "stream"
  /\ response[1].decision = "answer"
  /\ Len(traces) = 1
  /\ traces[1].state = "failed"
  /\ events[Len(events)].event = "done"

\* the reason codes of a list other than SELF_INCONSISTENCY
OtherReasons(reasons) == SelectSeq(reasons, LAMBDA r : r # "SELF_INCONSISTENCY")

\* C13: self-consistency is non-interfering.  A request decided with any
\* other self-consistency score (none, or a value of [0,1]: the ends, the
\* values around the 0.4 limit, the neutral 0.5) gets the same
\* decision, the same confidence and the same reason codes other than
\* SELF_INCONSISTENCY; that code is among the reasons exactly when the score
\* is present and < 0.4.
C13_SelfConsistencyNonInterference ==
  (Responded /\ verification # <<>>) =>
    LET g == groundedness_score
        c == contradiction_rate
        others == {<<>>} \cup {<<v>> : v \in {0, 10, 39, 40, 41, 50, 100}}
    IN /\ \A other \in others :
            LET v2 == decide(g, c, other, mode)
                r2 == build_verified_response(
                        api, gen_result[1], ConfidenceScore(rq_score, g, c),
                        map_decision(v2.decision, mode),
                        rq_reasons \o v2.reason_codes, rq_score)
            IN /\ r2.decision = response[1].decision
               /\ r2.confidence = response[1].confidence
               /\ r2.answer = response[1].answer
               /\ OtherReasons(r2.reasons) = OtherReasons(response[1].reasons)
               /\ ("SELF_INCONSISTENCY" \in Range(r2.reasons)) <=>
                    (other # <<>> /\ other[1] < 40)
       /\ ("SELF_INCONSISTENCY" \in Range(response[1].reasons)) <=>
            (sc_score # <<>> /\ sc_score[1] < 40)

C13_Witness ==
  /\ Responded
  /\ verification # <<>>
  /\ sc_score = <<39>>
  /\ "SELF_INCONSISTENCY" \in Range(response[1].reasons)
  /\ response[1].decision = "answer"

\* the calls of a key that returned True with a timestamp in (lo, hi]
AdmittedIn(key, lo, hi) ==
  {i \in 1..Len(admitted[key]) : admitted[key][i] > lo /\ admitted[key][i] <= hi}

\* C14: check(key) returns True iff fewer than max_requests earlier admitted
\* calls of that key are strictly newer than now - window_seconds; so no
\* window of that length holds more than max_requests admitted calls of one
\* key; a rejected call records nothing; a call of one key leaves what is
\* kept for every other key as it was.
C14_RateLimiter ==
  /\ [][\A key \in RateKeys :
          (last_check' # <<>> /\ last_check'[1].key = key /\
           <<limiter_requests, admitted, last_check>> #
             <<limiter_requests', admitted', last_check'>>) =>
            /\ last_check'[1].result <=>
                 (Cardinality(AdmittedIn(key, clock - WindowSeconds, clock)) < MaxRequests)
            /\ last_check'[1].result => admitted'[key] = Append(admitted[key], clock)
            /\ ~last_check'[1].result =>
                 (admitted' = admitted /\
                  Range(limiter_requests'[key]) \subseteq Range(limiter_requests[key]))
            /\ \A other \in RateKeys \ {key} :
                 /\ limiter_requests'[other] = limiter_requests[other]
                 /\ admitted'[other] = admitted[other]]_vars
  /\ [](\A key \in RateKeys : \A lo \in (0 - WindowSeconds)..MaxClock :
          Cardinality(AdmittedIn(key, lo, lo + WindowSeconds)) <= MaxRequests)

C14_Witness ==
  /\ last_check # <<>>
  /\ last_check[1].key = ""
  /\ last_check[1].result
  /\ Len(admitted[""]) = MaxRequests + 1
  /\ admitted[""][1] = clock - WindowSeconds
  /\ Len(admitted["user1"]) = MaxRequests
  /\ Len(limiter_requests["user1"]) = MaxRequests

\* C15: the delegate is never called for a text whose embedding is in the
\* cache.  A call whose texts are all cached (repeated texts included) calls
\* the delegate not at all and returns the stored embeddings in input order;
\* any call calls the delegate at most once and only with texts that were
\* not cached; and what a completed call embedded is cached afterwards.
C15_CachedEmbedder ==
  [][(last_embed' # last_embed) =>
       LET texts == last_embed'[1].texts
           all_cached == \A i \in 1..Len(texts) : cache_get(texts[i]) # <<>>
       IN /\ all_cached =>
               /\ delegate_calls' = delegate_calls
               /\ last_embed'[1].result =
                    [i \in 1..Len(texts) |-> cache_get(texts[i])[1]]
          /\ Len(delegate_calls') <= Len(delegate_calls) + 1
          /\ delegate_calls' # delegate_calls =>
               LET batch == delegate_calls'[Len(delegate_calls')]
               IN /\ batch # <<>>
                  /\ \A k \in 1..Len(batch) :
                       batch[k] \in Range(texts) /\ cache_get(batch[k]) = <<>>
          /\ \A i \in 1..Len(texts) : embedding_cache'[hash(texts[i])] # <<>>]_vars

\* what a search computes entirely from the index of one corpus
SearchOf(corpus) == [i \in 1..Len(corpus) |-> [chunk_id |-> corpus[i], score_of |-> corpus[i]]]

\* C16: whatever the interleaving of a rebuild with a search, what the
\* search returns is computed entirely from one index: the index of a corpus
\* that was installed, or is being installed, old or new; it never fails and
\* never pairs a chunk id of one index with a score of another.
C16_AtomicSwap ==
  search_result # <<>> =>
    /\ search_result[1].raised = ""
    /\ \E corpus \in indexes : search_result[1].items = SearchOf(corpus)

\* C17: in the list _deduplicate returns no chunk id occurs twice, every
\* chunk id of the input occurs, and the candidate kept for a chunk id is an
\* input candidate with the maximum score among those with that id.
C17_Deduplicate ==
  dedup_out # <<>> =>
    LET out == dedup_out[1]
    IN /\ \A a \in 1..Len(out), b \in 1..Len(out) :
            a # b => out[a].chunk_id # out[b].chunk_id
       /\ {out[a].chunk_id : a \in 1..Len(out)} =
            {dedup_in[i].chunk_id : i \in 1..Len(dedup_in)}
       /\ \A a \in 1..Len(out) :
            /\ out[a] \in Range(dedup_in)
            /\ \A i \in 1..Len(dedup_in) :
                 dedup_in[i].chunk_id = out[a].chunk_id => dedup_in[i].score <= out[a].score

C17_Witness ==
  /\ dedup_out # <<>>
  /\ Len(dedup_in) = 3
  /\ dedup_in[1].chunk_id = "c1" /\ dedup_in[1].score = 1
  /\ dedup_in[2].chunk_id = "c2"
  /\ dedup_in[3].chunk_id = "c1" /\ dedup_in[3].score = 3
  /\ Len(dedup_out[1]) = 2
  /\ dedup_out[1][1] = dedup_in[3]

\* the rewrites a fallback tries: at most three, none when the request failed
TriedRewrites ==
  LET rw == fallback_in[1].llm_rewrites
  IN IF fallback_in[1].outcome = "failed" THEN <<>>
     ELSE [k \in 1..(IF Len(rw) < 3 THEN Len(rw) ELSE 3) |-> rw[k]]

\* the outcome C18 describes, for a given proceed threshold
FallbackOutcomeAsClaimed(proceed_threshold) ==
  LET fr == fallback_result[1]
      expanded == fallback_in[1].expanded
      rqOf(l) == IF l.chunks = <<>> THEN 0 ELSE l.rq
      tried == {expanded} \cup Range(TriedRewrites)
  IN IF rqOf(expanded) >= proceed_threshold
     THEN /\ fr.decision = "proceed"
          /\ fr.candidates = expanded
          /\ fr.quality_score = rqOf(expanded)
     ELSE /\ \A l \in tried : rqOf(l) <= fr.quality_score
          /\ fr.candidates \in tried
          /\ rqOf(fr.candidates) = fr.quality_score
          /\ fr.decision = (IF fr.quality_score >= 25 THEN "proceed" ELSE "abstain")

\* C18: fallback_retrieve returns proceed with the expanded candidates, and
\* tries no rewrite, when the expanded rq reaches the proceed threshold of
\* the request's mode (0.55 normal, 0.70 strict); otherwise it returns the
\* highest rq among the expansion and at most three rewrites (none when the
\* rewrite request failed), with the list that produced it, and proceed iff
\* that rq >= 0.25.
C18_FallbackOutcome ==
  (fallback_in # <<>> /\ fallback_result # <<>>) =>
     FallbackOutcomeAsClaimed(IF mode = "strict" THEN 70 ELSE 55)

\* the same outcome read with the one configured threshold of the manager
C18_ConfiguredThreshold ==
  (fallback_in # <<>> /\ fallback_result # <<>>) => FallbackOutcomeAsClaimed(55)


\* the fallback manager ran for the request, and what it returned
FallbackRan == "fallback" \in Range(invoked) /\ fallback_result # <<>>

\* C19: in every response, FALLBACK_USED is among the reasons exactly when
\* the fallback manager ran and returned proceed, FALLBACK_FAILED exactly
\* when it ran and returned abstain, and then the decision is abstain; the
\* two codes never occur together and neither occurs when the manager did
\* not run.
C19_FallbackReasons ==
  response # <<>> =>
    LET rs == Range(response[1].reasons)
    IN /\ ("FALLBACK_USED" \in rs) <=>
            (FallbackRan /\ fallback_result[1].decision = "proceed")
       /\ ("FALLBACK_FAILED" \in rs) <=>
            (FallbackRan /\ fallback_result[1].decision = "abstain")
       /\ ("FALLBACK_FAILED" \in rs) => response[1].decision = "abstain"
       /\ ~({"FALLBACK_USED", "FALLBACK_FAILED"} \subseteq rs)
       /\ ~FallbackRan => rs \cap {"FALLBACK_USED", "FALLBACK_FAILED"} = {}

\* a verified answer delivered after the fallback manager returned proceed
C19_Witness ==
  /\ response # <<>>
  /\ FallbackRan
  /\ fallback_result[1].decision = "proceed"
  /\ "FALLBACK_USED" \in Range(response[1].reasons)
  /\ response[1].decision = "answer"

\* an abstention delivered after the fallback manager returned abstain
C19_WitnessFailed ==
  /\ response # <<>>
  /\ FallbackRan
  /\ fallback_result[1].decision = "abstain"
  /\ "FALLBACK_FAILED" \in Range(response[1].reasons)


\* the verification stage has been entered for the request
VerificationReached == pc \in {"gather", "decide"} \/ verification # <<>>

Started(check) == check \in Range(invoked)

Completed(check_pc) == check_pc \in {"done", "failed"}

\* C20: once the verification stage is reached, the groundedness and the
\* contradiction check are both started, and both have completed when the
\* verification decision is taken, whatever budget remains; the
\* self-consistency check has run at the decision exactly when more than
\* 1500 ms remained at the start of verification, and every step that starts
\* it is taken with both other checks completed.
C20_VerificationSchedule ==
  /\ [](VerificationReached =>
          Started("groundedness") /\ Started("contradiction"))
  /\ []((pc = "decide" \/ verification # <<>>) =>
          /\ Completed(gpc) /\ Completed(cpc)
          /\ Started("self_consistency") <=> remaining_ms > 1500
          /\ sc_score # <<>> <=> remaining_ms > 1500)
  /\ [][(~Started("self_consistency") /\ Started("self_consistency")') =>
          (Completed(gpc) /\ Completed(cpc) /\ remaining_ms > 1500)]_vars
  /\ [][(verification = <<>> /\ verification' # <<>>) =>
          (Completed(gpc) /\ Completed(cpc))]_vars

\* the decision was taken with the deadline already passed: both checks ran,
\* self-consistency did not
C20_Witness ==
  /\ verification # <<>>
  /\ remaining_ms < 0
  /\ Started("groundedness") /\ Started("contradiction")
  /\ Completed(gpc) /\ Completed(cpc)
  /\ ~Started("self_consistency")

\* the decision was taken after self-consistency ran with 1501 ms left
C20_WitnessRan ==
  /\ verification # <<>>
  /\ remaining_ms = 1501
  /\ Started("self_consistency")
  /\ sc_score # <<>>


\* the generated answer contains one of the refusal phrases, in any case
MatchesRefusalPattern(answer) ==
  \E i \in 1..Len(answer) : Lower(answer[i]) \in refusal_patterns

VerifierCalls == {"groundedness", "contradiction", "self_consistency", "decide"}

\* C21: once the generated answer of a request matches a refusal pattern,
\* neither the groundedness check, the contradiction check, the
\* self-consistency check nor the verification decision maker is ever invoked
\* for that request, in execute and in execute_stream.
C21_IgnoranceBypassesVerifier ==
  (gen_result # <<>> /\ MatchesRefusalPattern(gen_result[1].answer)) =>
     /\ Range(invoked) \cap VerifierCalls = {}
     /\ gpc = "idle" /\ cpc = "idle"
     /\ sc_score = <<>> /\ verification = <<>>

\* execute_stream delivered its response on the ignorance path (upper-case
\* refusal phrase) with no verifier call
C21_Witness ==
  /\ api = "stream"
  /\ response # <<>>
  /\ gen_result # <<>>
  /\ gen_result[1].answer = <<"x", "UNABLE TO ANSWER", "[", "1", "]">>
  /\ "LOW_GROUNDEDNESS" \in Range(response[1].reasons)
  /\ Range(invoked) \cap VerifierCalls = {}

\* the same exit of execute
C21_WitnessExecute ==
  /\ api = "execute"
  /\ response # <<>>
  /\ gen_result # <<>>
  /\ MatchesRefusalPattern(gen_result[1].answer)
  /\ Range(invoked) \cap VerifierCalls = {}


\* the stages executed for the request, in the order of the overview
ExecutedStages ==
  <<"query_understanding", "decomposition", "retrieval", "reranking", "rq_scoring">>
    \o (IF Started("fallback") THEN <<"fallback">> ELSE <<>>)
    \o (IF Started("generate") THEN <<"generation">> ELSE <<>>)
    \o (IF Started("groundedness") THEN <<"verification">> ELSE <<>>)

\* C22: the trace handed to the trace store holds one closed span for every
\* stage that was executed for the request, in stage order, the fallback span
\* included when the request ends in a fallback abstain.
C22_StageSpans ==
  \A i \in 1..Len(traces) : traces[i].trace.spans = ExecutedStages

\* the same on every exit path but the fallback abstain
C22_StageSpansButFallbackAbstain ==
  \A i \in 1..Len(traces) :
     "FALLBACK_FAILED" \notin Range(traces[i].trace.reason_codes) =>
        traces[i].trace.spans = ExecutedStages


\* the chunk ids of a candidate list, in order
CandidateIds(cands) == [i \in 1..Len(cands) |-> cands[i].chunk]

\* C23: when retrieve has returned, its candidates are exactly the fused
\* chunk ids the chunk store resolved at lookup time, each chunk id at most
\* once, in non-increasing fused-score order; ids missing from the store are
\* dropped without error; when both backends returned nothing the result is
\* empty and the chunk store was not queried.
C23_HybridOutput ==
  hybrid.pc = "returned" =>
    LET out == hybrid.candidates
        backend == Range(hybrid.vector_results) \cup Range(hybrid.bm25_results)
    IN /\ Range(CandidateIds(out)) = backend \cap hybrid.chunks_map
       /\ \A i, j \in 1..Len(out) : i # j => out[i].chunk # out[j].chunk
       /\ \A i, j \in 1..Len(out) : i < j => out[i].score >= out[j].score
       /\ \A i \in 1..Len(out) :
            \E f \in Range(hybrid.fused) :
               f.chunk_id = out[i].chunk /\ f.score = out[i].score
       /\ (hybrid.vector_results = <<>> /\ hybrid.bm25_results = <<>>) =>
             (out = <<>> /\ hybrid.store_queries = 0)
       /\ backend # {} => hybrid.store_queries = 1

\* both backends returned k1 and k2, the vector index also k3; the store did
\* not hold k1 at lookup time
C23_Witness ==
  /\ hybrid.pc = "returned"
  /\ hybrid.vector_results = <<"k1", "k3">>
  /\ hybrid.bm25_results = <<"k2", "k1">>
  /\ hybrid.chunks_map = {"k2", "k3"}
  /\ CandidateIds(hybrid.candidates) = <<"k2", "k3">>

\* nothing retrieved, nothing looked up
C23_WitnessEmpty ==
  /\ hybrid.pc = "returned"
  /\ hybrid.vector_results = <<>> /\ hybrid.bm25_results = <<>>
  /\ hybrid.store_queries = 0


\* C24: for all input lists, reciprocal_rank_fusion returns the same ranked
\* sequence of chunk ids for every ordering of the lists, also when chunk ids
\* have equal fused scores.
C24_RrfPermutationStable ==
  rrf_out # <<>> =>
    \A o1, o2 \in DOMAIN rrf_out[1] :
       RankedIds(rrf_out[1][o1]) = RankedIds(rrf_out[1][o2])

\* the fused scores, and the ranking wherever no two chunk ids tie, are the
\* same for every ordering of the lists
C24_ScoresPermutationStable ==
  rrf_out # <<>> =>
    \A o1, o2 \in DOMAIN rrf_out[1] :
       /\ Range(rrf_out[1][o1]) = Range(rrf_out[1][o2])
       /\ (\A a, b \in Range(rrf_out[1][o1]) : a # b => a.score # b.score) =>
             RankedIds(rrf_out[1][o1]) = RankedIds(rrf_out[1][o2])

\* one list is returned in its own order
C24_SingleListOrder ==
  (rrf_out # <<>> /\ Len(rrf_in) = 1) =>
     RankedIds(rrf_out[1][rrf_in]) = rrf_in[1]


\* id_to_chunk_id and chunk_id_to_int are inverse bijections
InverseBijections(st) ==
  /\ \A i \in DOMAIN st.id_to_chunk_id :
        /\ st.id_to_chunk_id[i] \in DOMAIN st.chunk_id_to_int
        /\ st.chunk_id_to_int[st.id_to_chunk_id[i]] = i
  /\ \A c \in DOMAIN st.chunk_id_to_int :
        /\ st.chunk_id_to_int[c] \in DOMAIN st.id_to_chunk_id
        /\ st.id_to_chunk_id[st.chunk_id_to_int[c]] = c

\* C25: after any sequence of add and add_safe calls, concurrent add_safe
\* calls and re-added chunk ids included, id_to_chunk_id and chunk_id_to_int
\* are inverse bijections and next_id is greater than every assigned integer;
\* every step hands out integers greater than all assigned before and leaves
\* the integers already assigned with their chunk ids.
C25_IdMapping ==
  /\ [](InverseBijections(faiss) /\
        \A i \in DOMAIN faiss.id_to_chunk_id : i < faiss.next_id)
  /\ [][/\ \A i \in DOMAIN faiss.id_to_chunk_id :
             /\ i \in DOMAIN faiss.id_to_chunk_id'
             /\ faiss.id_to_chunk_id'[i] = faiss.id_to_chunk_id[i]
        /\ \A c \in DOMAIN faiss.chunk_id_to_int :
             /\ c \in DOMAIN faiss.chunk_id_to_int'
             /\ faiss.chunk_id_to_int'[c] = faiss.chunk_id_to_int[c]
        /\ \A n \in DOMAIN faiss.id_to_chunk_id' \ DOMAIN faiss.id_to_chunk_id :
             \A i \in DOMAIN faiss.id_to_chunk_id : i < n
        /\ faiss.next_id' >= faiss.next_id]_vars

\* two add_safe calls have returned, the second re-adding k1 next to the new
\* k2: k1 keeps 0, k2 has 1, the next integer is 2
C25_Witness ==
  /\ faiss.adds >= 2
  /\ \A t \in AddTasks : faiss.calls[t].pc = "idle"
  /\ faiss.write_lock = ""
  /\ DOMAIN faiss.chunk_id_to_int = {"k1", "k2"}
  /\ faiss.chunk_id_to_int["k1"] = 0
  /\ faiss.chunk_id_to_int["k2"] = 1
  /\ faiss.next_id = 2
  /\ faiss.ntotal = 3

\* two add_safe calls are in flight at once, one holding the lock
C25_WitnessConcurrent ==
  /\ faiss.calls["t1"].pc = "added"
  /\ faiss.calls["t2"].pc = "waiting"
  /\ faiss.write_lock = "t1"


AllIngestsReturned == \A t \in IngestTasks : ingest.calls[t].pc = "returned"

\* C26: for any interleaving of the concurrent ingest_file calls, once all of
\* them have returned the BM25 index covers exactly the chunks present in
\* the chunk store.
C26_NoLostUpdate ==
  AllIngestsReturned => ingest.bm25_chunk_ids = ingest.store

\* the index never holds a chunk the store does not hold, and after all
\* calls have returned it is the list one of them read
C26_IndexIsASnapshot ==
  /\ ingest.bm25_chunk_ids \subseteq ingest.store
  /\ AllIngestsReturned =>
       \E t \in IngestTasks : ingest.bm25_chunk_ids = ingest.calls[t].all_chunks

\* one ingest_file call on its own leaves the index equal to the store
C26_SingleIngest ==
  (\E t \in IngestTasks :
      /\ ingest.calls[t].pc = "returned"
      /\ \A u \in IngestTasks \ {t} : ingest.calls[u].pc = "idle")
    => ingest.bm25_chunk_ids = ingest.store


\* what execute returns for the collaborator behaviour the request has met:
\* the verifier path, the ignorance path, the fallback abstain, the RQ abstain
ExecuteReturns ==
  IF verification # <<>>
  THEN LET v == verification[1]
       IN build_verified_response(
            "execute", gen_result[1],
            ConfidenceScore(rq_score, groundedness_score, contradiction_rate),
            map_decision(v.decision, mode), rq_reasons \o v.reason_codes, rq_score)
  ELSE IF gen_result # <<>>
  THEN IF rq_score >= IgnoranceThreshold(mode)
       THEN build_clarify_response(gen_result[1], rq_score,
                                   rq_reasons \o <<"LOW_GROUNDEDNESS">>)
       ELSE build_abstain_response(rq_score, rq_reasons \o <<"LOW_GROUNDEDNESS">>)
  ELSE IF FallbackRan
  THEN build_abstain_response(rq_score, rq_reasons \o <<"FALLBACK_FAILED">>)
  ELSE build_abstain_response(rq_score, rq_reasons)

\* the responses carried by the metadata events sent so far
MetadataPayloads ==
  {events[i].payload[1] : i \in {j \in 1..Len(events) : events[j].event = "metadata"}}

SameOutcome(r1, r2) ==
  /\ r1.decision = r2.decision
  /\ r1.answer = r2.answer
  /\ r1.citations = r2.citations
  /\ r1.confidence = r2.confidence
  /\ r1.reasons = r2.reasons

\* C27: on every path, the response in the metadata event of execute_stream
\* equals the response execute returns for the same request and the same
\* collaborator behaviour, in decision, answer text, citations, confidence and
\* reasons.
C27_StreamAgreesWithExecute ==
  (api = "stream" /\ pc = "done") =>
     /\ MetadataPayloads # {}
     /\ \A r \in MetadataPayloads : SameOutcome(r, ExecuteReturns)

\* execute itself returns what ExecuteReturns computes
C27_ExecuteReference ==
  (api = "execute" /\ pc = "done") => response[1] = ExecuteReturns

\* the two agree on every path that does not reach the verifier, and on the
\* verifier path when the decision is answer
C27_AgreeOffVerifierPath ==
  (api = "stream" /\ pc = "done" /\
   (verification = <<>> \/ response[1].decision = "answer")) =>
     \A r \in MetadataPayloads : SameOutcome(r, ExecuteReturns)


\* C28: in both modes and on every path, direct or after fallback, whenever
\* the answer generator is invoked the rq score in effect is >=
\* rq_fallback_threshold; that score stays in effect from then on, is the one
\* the confidence is computed from and the one reported as retrieval_quality.
C28_GenerationPrecondition ==
  /\ [](Started("generate") => rq_score >= rq_fallback_threshold)
  /\ [][Started("generate") => rq_score' = rq_score]_vars
  /\ []((Started("generate") /\ response # <<>>) =>
          /\ response[1].retrieval_quality = rq_score
          /\ verification # <<>> =>
               response[1].confidence =
                 ConfidenceScore(rq_score, groundedness_score, contradiction_rate))

\* the generator ran on candidates the fallback manager returned with an rq
\* between the fallback and the proceed threshold, and the request was answered
C28_Witness ==
  /\ Started("generate")
  /\ FallbackRan
  /\ rq_score >= rq_fallback_threshold
  /\ rq_score < rq_proceed_threshold
  /\ response # <<>>
  /\ verification # <<>>

\* the generator ran without fallback, in strict mode
C28_WitnessDirect ==
  /\ Started("generate")
  /\ ~FallbackRan
  /\ mode = "strict"
  /\ rq_score >= strict_rq_proceed_threshold


\* both checks of a request failed and fell back to their neutral defaults
BothChecksFailed == gpc = "failed" /\ cpc = "failed"

\* C29: if for a request that reaches verification both the groundedness
\* check and the contradiction check fail and fall back to their neutral
\* defaults (0.5 and 0.0), the response decision is clarify in normal and in
\* strict mode, never answer and never abstain, whatever the self-consistency
\* outcome.
C29_TotalFailureClarifies ==
  /\ BothChecksFailed =>
       groundedness_score = groundedness_neutral /\
       contradiction_rate = contradiction_neutral
  /\ (BothChecksFailed /\ response # <<>>) =>
       /\ response[1].decision = "clarify"
       /\ verification[1].decision = "warn"
       /\ \A i \in 1..Len(traces) : traces[i].trace.decision = "clarify"

\* strict mode, both checks failed, self-consistency ran and disagreed: clarify
C29_Witness ==
  /\ BothChecksFailed
  /\ mode = "strict"
  /\ sc_score = <<10>>
  /\ response # <<>>
  /\ response[1].decision = "clarify"

\* normal mode, both checks failed, self-consistency skipped: clarify
C29_WitnessNormal ==
  /\ BothChecksFailed
  /\ mode = "normal"
  /\ sc_score = <<>>
  /\ response # <<>>
  /\ response[1].decision = "clarify"


\* what decide returns in mode m for the scores of the request
DecideIn(m) == decide(groundedness_score, contradiction_rate, sc_score, m)

\* C30: under the default thresholds, for all groundedness, contradiction
\* rate and self-consistency, if decide returns pass in strict mode it
\* returns pass in normal mode, it returns abstain in strict mode exactly
\* when it returns abstain in normal mode, and the reason codes are the same
\* in the two modes.
C30_StrictNotMorePermissive ==
  verification # <<>> =>
    /\ verification[1] = DecideIn(mode)
    /\ DecideIn("strict").decision = "pass" => DecideIn("normal").decision = "pass"
    /\ DecideIn("strict").decision = "abstain" <=> DecideIn("normal").decision = "abstain"
    /\ DecideIn("strict").reason_codes = DecideIn("normal").reason_codes

\* decide returned warn in strict mode for scores that pass in normal mode
C30_Witness ==
  /\ verification # <<>>
  /\ mode = "strict"
  /\ verification[1].decision = "warn"
  /\ DecideIn("normal").decision = "pass"
  /\ groundedness_score = 84
  /\ contradiction_rate = 10

\* decide returned pass in strict mode
C30_WitnessPass ==
  /\ verification # <<>>
  /\ mode = "strict"
  /\ verification[1].decision = "pass"
  /\ groundedness_score = 85
  /\ contradiction_rate = 10

====
